---------------------------- MODULE Spec2Model ----------------------------
(***************************************************************************)
(* WeatherMind: the temperature-analysis pipeline                          *)
(*   weather/services/analysis/temperature.py     analyze_temperature      *)
(*   weather/services/analysis/interpretation.py  interpret_...            *)
(*   weather/services/analysis/impact.py          assess_temperature_impact*)
(*   weather/services/analysis/suggestions.py     suggest_actions_from_... *)
(*   weather/services/insights/temperature_insight.py                      *)
(*                                                 build_temperature_insight*)
(* and its callers                                                         *)
(*   api/views/temperature_insight.py             temperature_insight_view *)
(*   core/views/temperature_insight.py            temperature_insight_view *)
(*   weather/services/history.py                  get_city_history         *)
(*   weather/services/weather_service.py   get_recent_temperatures_for_city*)
(*                                                                         *)
(* Numbers.  A reading is a Python float.  The model takes readings from   *)
(* the dyadic grid k/Scale (Scale a power of two), written as the integer  *)
(* k.  On that grid every reading, every sum and every difference of       *)
(* readings is an exact double, so max - min, the deltas and the sums are  *)
(* the exact values, and a quotient sum/len is the correctly rounded       *)
(* double of the exact quotient.  The comparisons of the code (< 2, <= 5,  *)
(* < 1) then agree with the comparisons of the exact values, and           *)
(* round(x, 2), which rounds the exact value of the double half-to-even,   *)
(* agrees with half-to-even rounding of the exact quotient whenever len is *)
(* not a multiple of 5 (a decimal tie j/200 with 5 not dividing len is     *)
(* itself dyadic).  A rounded value is written as an integer number of     *)
(* hundredths.  nan, inf and -inf are integers far outside the grid, with  *)
(* the IEEE-754 rules for their comparisons, sums and differences.         *)
(*                                                                         *)
(* Text.  A Python str is a sequence of one-character strings, so that     *)
(* f-string formatting and " ".join are modelled by concatenation and      *)
(* their commas, periods and spaces can be counted.                        *)
(***************************************************************************)
EXTENDS Integers, Sequences, FiniteSets

VARIABLES
    caller,          \* who runs the stages: build_temperature_insight, or a direct call of the stage functions
    temperatures,    \* the argument of build_temperature_insight
    pc,              \* the position inside build_temperature_insight
    analysis,        \* local variable analysis (or the dict handed to the stage functions)
    interpretation,  \* local variable interpretation
    impact,          \* local variable impact
    impact_arg,      \* the impact argument handed to suggest_actions_from_temperature
    suggestions,     \* local variable suggestions
    exception,       \* the exception that left the call, "none" if none did
    insight,         \* the returned dict, as a sequence of <<key, value>> items
    earlier,         \* an earlier call of build_temperature_insight: <<its argument, its result>>
    db,              \* the rows of the WeatherRecord table, in insertion order
    now,             \* the clock (timezone.now()), in hours
    response,        \* the last HTTP response of a view
    cache,           \* django.core.cache: the entries, each with its key, value and expiry time
    provider_calls,  \* the requests sent to the weather provider so far
    outcome,         \* the last call of a service function: its argument and how it ended
    dashboard        \* the last call of the dashboard: its arguments, locals and result

\* what the services outside the pipeline work on
services == <<cache, provider_calls, outcome, dashboard>>

env == <<earlier, db, now, response, services>>

vars == <<caller, temperatures, pc, analysis, interpretation, impact, impact_arg, suggestions,
          exception, insight, env>>

----------------------------------------------------------------------------
(* Bounds of the model *)

\* readings are multiples of 1/Scale degree
Scale == 2^8
\* longest reading sequence handed to build_temperature_insight
MaxLen == 3
\* whole-degree readings range over -1 .. MaxDeg
MaxDeg == 5

\* off-grid readings: -1/256, 1/256 (next to a threshold) and 1/8 (a decimal tie: 0.125)
Fine == {0 - 1, 1, Scale \div 8}
Temps == {d * Scale : d \in (0 - 1)..MaxDeg} \cup Fine
\* the reading sequences of the documented examples, in degrees
Examples == {<<20, 25>>, <<20, 19>>, <<22, 23, 25, 28, 27, 26>>, <<20, 20, 20>>}
\* longer sequences: n readings rising from 0 by a step, the same falling, and n rising and
\* then falling back to 0; with steps of half a degree and with steps of whole degrees
Rise(n, step) == [i \in 1..n |-> (i - 1) * step]
Fall(n, step) == [i \in 1..n |-> (n - i) * step]
Hill(n, step) == [i \in 1..(2 * n - 1) |-> IF i <= n THEN (i - 1) * step ELSE (2 * n - 1 - i) * step]
Ramps ==
    UNION {{Rise(n, Scale \div 2), Fall(n, Scale \div 2), Hill(n, Scale \div 2)} : n \in {2, 7, 12}}
        \cup UNION {{Rise(2, k * Scale), Fall(2, k * Scale), Hill(2, k * Scale)} : k \in {1, 3, 6}}
Inputs ==
    UNION {[1..n -> Temps] : n \in 0..MaxLen}
        \cup {[i \in 1..Len(e) |-> e[i] * Scale] : e \in Examples}
        \cup Ramps

----------------------------------------------------------------------------
(* Python values *)

None == <<>>
Float(v) == <<v>>

Abs(x) == IF x < 0 THEN 0 - x ELSE x

\* The non-finite floats, written as integers far outside the grid.  The infinities are
\* ordered like integers; every comparison with NaN is false.
PosInf == 2^20
NegInf == 0 - PosInf
NaN == 2^21
NonFinite == {NaN, PosInf, NegInf}
IsFinite(x) == x \notin NonFinite

\* a < b, a <= b, a > b on floats
lt(a, b) == a # NaN /\ b # NaN /\ a < b
le(a, b) == a # NaN /\ b # NaN /\ a <= b
gt(a, b) == lt(b, a)

\* -a, a - b, a + b, abs(a) on floats
fneg(a) == IF a = NaN THEN NaN ELSE 0 - a
fsub(a, b) ==
    IF a = NaN \/ b = NaN THEN NaN
    ELSE IF ~ IsFinite(a) THEN (IF a = b THEN NaN ELSE a)
    ELSE IF ~ IsFinite(b) THEN fneg(b)
    ELSE a - b
fadd(a, b) == fsub(a, fneg(b))
fabs(a) == IF a = NaN THEN NaN ELSE Abs(a)

\* sum(s): the items added left to right, starting from 0
RECURSIVE sumFrom(_, _)
\* (the accumulator is bound to its value before the next step, so it is computed once)
sumFrom(acc, s) ==
    IF s = <<>> THEN acc
    ELSE CHOOSE r \in {sumFrom(a, Tail(s)) : a \in {fadd(acc, s[1])}} : TRUE
sum(s) == sumFrom(0, s)

\* max(s), min(s) for a non-empty s: the first item is kept until a later one compares
\* greater (smaller)
RECURSIVE maxFrom(_, _)
maxFrom(m, s) ==
    IF s = <<>> THEN m
    ELSE CHOOSE r \in {maxFrom(a, Tail(s)) : a \in {IF gt(s[1], m) THEN s[1] ELSE m}} : TRUE
max(s) == maxFrom(s[1], Tail(s))
RECURSIVE minFrom(_, _)
minFrom(m, s) ==
    IF s = <<>> THEN m
    ELSE CHOOSE r \in {minFrom(a, Tail(s)) : a \in {IF lt(s[1], m) THEN s[1] ELSE m}} : TRUE
min(s) == minFrom(s[1], Tail(s))

\* mutant: truncation toward minus infinity instead of rounding
round2Floor(num, den) == IF ~ IsFinite(num) THEN num ELSE (100 * num) \div den

\* round(num/den, 2) for den > 0, in hundredths: the nearest hundredth, a tie to the even
\* one; a non-finite num/den is returned as it is
round2(num, den) ==
    LET q == (100 * num) \div den
        r == (100 * num) % den
    IN  IF ~ IsFinite(num) THEN num
        ELSE IF 2 * r < den THEN q
        ELSE IF 2 * r > den THEN q + 1
        ELSE IF q % 2 = 0 THEN q ELSE q + 1

RECURSIVE join(_, _)
\* sep.join(msgs)
join(sep, msgs) ==
    IF msgs = <<>> THEN <<>>
    ELSE IF Len(msgs) = 1 THEN msgs[1]
    ELSE msgs[1] \o sep \o join(sep, Tail(msgs))

----------------------------------------------------------------------------
(* analysis/temperature.py *)

InsufficientAnalysis ==
    [trend |-> "insufficient_data", variation |-> "insufficient_data",
     stability |-> "insufficient_data",
     min |-> None, max |-> None, average |-> None, amplitude |-> None]

\* mutant: no guard at all
InsufficientGuardMissing(temps) == FALSE

\* mutant: only the empty list is caught
InsufficientGuardEmptyOnly(temps) == Len(temps) = 0

\* line 5: not temperatures or len(temperatures) < 2
InsufficientGuard(temps) == Len(temps) = 0 \/ Len(temps) < 2

\* mutant: the comparison the wrong way round
TrendOfSwapped(first, last) ==
    IF gt(first, last) THEN "up"
    ELSE IF lt(first, last) THEN "down"
    ELSE "stable"

\* lines 20-25
TrendOf(first, last) ==
    IF gt(last, first) THEN "up"
    ELSE IF lt(last, first) THEN "down"
    ELSE "stable"

\* mutant: the upper boundary exclusive
VariationOfExclusive(amplitude) ==
    IF lt(amplitude, 2 * Scale) THEN "low"
    ELSE IF lt(amplitude, 5 * Scale) THEN "moderate"
    ELSE "high"

\* mutant: else in place of the second test, so nothing is high
VariationOfNoHigh(amplitude) ==
    IF lt(amplitude, 2 * Scale) THEN "low" ELSE "moderate"

\* lines 30-35, amplitude in units of 1/Scale
VariationOf(amplitude) ==
    IF lt(amplitude, 2 * Scale) THEN "low"
    ELSE IF le(amplitude, 5 * Scale) THEN "moderate"
    ELSE "high"

\* lines 38-41
Deltas(temps) == [i \in 1..(Len(temps) - 1) |-> fabs(fsub(temps[i + 1], temps[i]))]

\* mutant: one delta taken as too few to judge the stability
StabilityOfOneDelta(deltas) ==
    IF Len(deltas) < 2 THEN "insufficient_data"
    ELSE IF lt(sum(deltas), 1 * Scale * Len(deltas)) THEN "stable" ELSE "unstable"

\* mutant: the threshold inclusive
StabilityOfInclusive(deltas) ==
    IF le(sum(deltas), 1 * Scale * Len(deltas)) THEN "stable" ELSE "unstable"

\* lines 43-48: average_delta = sum(deltas) / len(deltas) < 1, for len(deltas) > 0 (a
\* non-finite sum divided by len(deltas) is that same non-finite value)
StabilityOf(deltas) ==
    IF lt(sum(deltas), 1 * Scale * Len(deltas)) THEN "stable" ELSE "unstable"

\* the outcome of a call: the exception that leaves it, or the value returned
Raise(exc) == [exc |-> exc, ret |-> None]
Return(value) == [exc |-> "none", ret |-> value]

\* mutant: variation and stability taken from the values rounded for display
analyze_temperature_from_display(temps) ==
    IF InsufficientGuard(temps) THEN Return(InsufficientAnalysis)
    ELSE
        LET amplitude == fsub(max(temps), min(temps))
            shown == round2(amplitude, Scale)
            shown_delta == round2(sum(Deltas(temps)), Scale * Len(Deltas(temps)))
        IN  Return([trend |-> TrendOf(temps[1], temps[Len(temps)]),
                    variation |-> IF lt(shown, 200) THEN "low"
                                  ELSE IF le(shown, 500) THEN "moderate" ELSE "high",
                    stability |-> IF lt(shown_delta, 100) THEN "stable" ELSE "unstable",
                    min |-> Float(round2(min(temps), Scale)),
                    max |-> Float(round2(max(temps), Scale)),
                    average |-> Float(round2(sum(temps), Scale * Len(temps))),
                    amplitude |-> Float(shown)])

\* mutant: the amplitude taken between the two end readings, last - first
analyze_temperature_between_ends(temps) ==
    IF InsufficientGuard(temps) THEN Return(InsufficientAnalysis)
    ELSE
        LET amplitude == fsub(temps[Len(temps)], temps[1])
        IN  Return([trend |-> TrendOf(temps[1], temps[Len(temps)]),
                    variation |-> VariationOf(amplitude),
                    stability |-> StabilityOf(Deltas(temps)),
                    min |-> Float(round2(min(temps), Scale)),
                    max |-> Float(round2(max(temps), Scale)),
                    average |-> Float(round2(sum(temps), Scale * Len(temps))),
                    amplitude |-> Float(round2(amplitude, Scale))])

\* lines 4-63
analyze_temperature(temps) ==
    IF InsufficientGuard(temps) THEN Return(InsufficientAnalysis)
    ELSE IF Len(temps) = 0 THEN Raise("IndexError")                  \* temperatures[0]
    ELSE IF Len(Deltas(temps)) = 0 THEN Raise("ZeroDivisionError")   \* sum(deltas) / len(deltas)
    ELSE
        LET first == temps[1]
            last == temps[Len(temps)]
            amplitude == fsub(max(temps), min(temps))
            min_temp == min(temps)
            max_temp == max(temps)
        IN  Return([trend |-> TrendOf(first, last),
                    variation |-> VariationOf(amplitude),
                    stability |-> StabilityOf(Deltas(temps)),
                    min |-> Float(round2(min_temp, Scale)),
                    max |-> Float(round2(max_temp, Scale)),
                    average |-> Float(round2(sum(temps), Scale * Len(temps))),
                    amplitude |-> Float(round2(amplitude, Scale))])

----------------------------------------------------------------------------
(* The string literals of interpretation.py, impact.py and suggestions.py *)

\* interpretation.py:10  "Ainda não há dados suficientes para analisar a variação da temperatura."
InsufficientInterpretation ==
    <<"A", "i", "n", "d", "a", " ", "n", "ã", "o", " ", "h", "á", " ", "d", "a", "d", "o", "s",
      " ", "s", "u", "f", "i", "c", "i", "e", "n", "t", "e", "s", " ", "p", "a", "r", "a", " ",
      "a", "n", "a", "l", "i", "s", "a", "r", " ", "a", " ", "v", "a", "r", "i", "a", "ç", "ã",
      "o", " ", "d", "a", " ", "t", "e", "m", "p", "e", "r", "a", "t", "u", "r", "a", ".">>

\* interpretation.py:14  "A temperatura apresentou uma tendência de alta"
TrendTextUp ==
    <<"A", " ", "t", "e", "m", "p", "e", "r", "a", "t", "u", "r", "a", " ", "a", "p", "r", "e",
      "s", "e", "n", "t", "o", "u", " ", "u", "m", "a", " ", "t", "e", "n", "d", "ê", "n", "c",
      "i", "a", " ", "d", "e", " ", "a", "l", "t", "a">>

\* interpretation.py:16  "A temperatura apresentou uma tendência de queda"
TrendTextDown ==
    <<"A", " ", "t", "e", "m", "p", "e", "r", "a", "t", "u", "r", "a", " ", "a", "p", "r", "e",
      "s", "e", "n", "t", "o", "u", " ", "u", "m", "a", " ", "t", "e", "n", "d", "ê", "n", "c",
      "i", "a", " ", "d", "e", " ", "q", "u", "e", "d", "a">>

\* interpretation.py:18  "A temperatura manteve-se estável"
TrendTextStable ==
    <<"A", " ", "t", "e", "m", "p", "e", "r", "a", "t", "u", "r", "a", " ", "m", "a", "n", "t",
      "e", "v", "e", "-", "s", "e", " ", "e", "s", "t", "á", "v", "e", "l">>

\* interpretation.py:22  "com pouca variação ao longo do período"
VariationTextLow ==
    <<"c", "o", "m", " ", "p", "o", "u", "c", "a", " ", "v", "a", "r", "i", "a", "ç", "ã", "o",
      " ", "a", "o", " ", "l", "o", "n", "g", "o", " ", "d", "o", " ", "p", "e", "r", "í", "o",
      "d", "o">>

\* interpretation.py:24  "com variação moderada ao longo do período"
VariationTextModerate ==
    <<"c", "o", "m", " ", "v", "a", "r", "i", "a", "ç", "ã", "o", " ", "m", "o", "d", "e", "r",
      "a", "d", "a", " ", "a", "o", " ", "l", "o", "n", "g", "o", " ", "d", "o", " ", "p", "e",
      "r", "í", "o", "d", "o">>

\* interpretation.py:26  "com variação acentuada ao longo do período"
VariationTextHigh ==
    <<"c", "o", "m", " ", "v", "a", "r", "i", "a", "ç", "ã", "o", " ", "a", "c", "e", "n", "t",
      "u", "a", "d", "a", " ", "a", "o", " ", "l", "o", "n", "g", "o", " ", "d", "o", " ", "p",
      "e", "r", "í", "o", "d", "o">>

\* interpretation.py:30  "e mudanças graduais entre os dias"
StabilityTextStable ==
    <<"e", " ", "m", "u", "d", "a", "n", "ç", "a", "s", " ", "g", "r", "a", "d", "u", "a", "i",
      "s", " ", "e", "n", "t", "r", "e", " ", "o", "s", " ", "d", "i", "a", "s">>

\* interpretation.py:32  "e mudanças bruscas entre os registros"
StabilityTextUnstable ==
    <<"e", " ", "m", "u", "d", "a", "n", "ç", "a", "s", " ", "b", "r", "u", "s", "c", "a", "s",
      " ", "e", "n", "t", "r", "e", " ", "o", "s", " ", "r", "e", "g", "i", "s", "t", "r", "o",
      "s">>

\* impact.py:11  "Não é possível avaliar o impacto na saúde no momento por falta de dados."
HealthInsufficient ==
    <<"N", "ã", "o", " ", "é", " ", "p", "o", "s", "s", "í", "v", "e", "l", " ", "a", "v", "a",
      "l", "i", "a", "r", " ", "o", " ", "i", "m", "p", "a", "c", "t", "o", " ", "n", "a", " ",
      "s", "a", "ú", "d", "e", " ", "n", "o", " ", "m", "o", "m", "e", "n", "t", "o", " ", "p",
      "o", "r", " ", "f", "a", "l", "t", "a", " ", "d", "e", " ", "d", "a", "d", "o", "s", ".">>

\* impact.py:12  "Não é possível avaliar o conforto no momento por falta de dados."
ComfortInsufficient ==
    <<"N", "ã", "o", " ", "é", " ", "p", "o", "s", "s", "í", "v", "e", "l", " ", "a", "v", "a",
      "l", "i", "a", "r", " ", "o", " ", "c", "o", "n", "f", "o", "r", "t", "o", " ", "n", "o",
      " ", "m", "o", "m", "e", "n", "t", "o", " ", "p", "o", "r", " ", "f", "a", "l", "t", "a",
      " ", "d", "e", " ", "d", "a", "d", "o", "s", ".">>

\* impact.py:21  "A alta variação de temperatura pode causar desconforto térmico ao longo do período."
ComfortHigh ==
    <<"A", " ", "a", "l", "t", "a", " ", "v", "a", "r", "i", "a", "ç", "ã", "o", " ", "d", "e",
      " ", "t", "e", "m", "p", "e", "r", "a", "t", "u", "r", "a", " ", "p", "o", "d", "e", " ",
      "c", "a", "u", "s", "a", "r", " ", "d", "e", "s", "c", "o", "n", "f", "o", "r", "t", "o",
      " ", "t", "é", "r", "m", "i", "c", "o", " ", "a", "o", " ", "l", "o", "n", "g", "o", " ",
      "d", "o", " ", "p", "e", "r", "í", "o", "d", "o", ".">>

\* impact.py:24  "Variações extremas podem afetar a saúde, especialmente de grupos vulneráveis."
HealthHigh ==
    <<"V", "a", "r", "i", "a", "ç", "õ", "e", "s", " ", "e", "x", "t", "r", "e", "m", "a", "s",
      " ", "p", "o", "d", "e", "m", " ", "a", "f", "e", "t", "a", "r", " ", "a", " ", "s", "a",
      "ú", "d", "e", ",", " ", "e", "s", "p", "e", "c", "i", "a", "l", "m", "e", "n", "t", "e",
      " ", "d", "e", " ", "g", "r", "u", "p", "o", "s", " ", "v", "u", "l", "n", "e", "r", "á",
      "v", "e", "i", "s", ".">>

\* impact.py:28  "A variação moderada de temperatura pode ser perceptível ao longo do dia."
ComfortModerate ==
    <<"A", " ", "v", "a", "r", "i", "a", "ç", "ã", "o", " ", "m", "o", "d", "e", "r", "a", "d",
      "a", " ", "d", "e", " ", "t", "e", "m", "p", "e", "r", "a", "t", "u", "r", "a", " ", "p",
      "o", "d", "e", " ", "s", "e", "r", " ", "p", "e", "r", "c", "e", "p", "t", "í", "v", "e",
      "l", " ", "a", "o", " ", "l", "o", "n", "g", "o", " ", "d", "o", " ", "d", "i", "a", ".">>

\* impact.py:31  "Variações moderadas geralmente não apresentam risco à saúde."
HealthModerate ==
    <<"V", "a", "r", "i", "a", "ç", "õ", "e", "s", " ", "m", "o", "d", "e", "r", "a", "d", "a",
      "s", " ", "g", "e", "r", "a", "l", "m", "e", "n", "t", "e", " ", "n", "ã", "o", " ", "a",
      "p", "r", "e", "s", "e", "n", "t", "a", "m", " ", "r", "i", "s", "c", "o", " ", "à", " ",
      "s", "a", "ú", "d", "e", ".">>

\* impact.py:35  "A baixa variação de temperatura tende a proporcionar maior conforto térmico."
ComfortLow ==
    <<"A", " ", "b", "a", "i", "x", "a", " ", "v", "a", "r", "i", "a", "ç", "ã", "o", " ", "d",
      "e", " ", "t", "e", "m", "p", "e", "r", "a", "t", "u", "r", "a", " ", "t", "e", "n", "d",
      "e", " ", "a", " ", "p", "r", "o", "p", "o", "r", "c", "i", "o", "n", "a", "r", " ", "m",
      "a", "i", "o", "r", " ", "c", "o", "n", "f", "o", "r", "t", "o", " ", "t", "é", "r", "m",
      "i", "c", "o", ".">>

\* impact.py:38  "Temperaturas estáveis favorecem o bem-estar e a saúde."
HealthLow ==
    <<"T", "e", "m", "p", "e", "r", "a", "t", "u", "r", "a", "s", " ", "e", "s", "t", "á", "v",
      "e", "i", "s", " ", "f", "a", "v", "o", "r", "e", "c", "e", "m", " ", "o", " ", "b", "e",
      "m", "-", "e", "s", "t", "a", "r", " ", "e", " ", "a", " ", "s", "a", "ú", "d", "e", ".">>

\* impact.py:44  "Mudanças bruscas podem indicar risco à saúde e exigem maior atenção."
HealthUnstable ==
    <<"M", "u", "d", "a", "n", "ç", "a", "s", " ", "b", "r", "u", "s", "c", "a", "s", " ", "p",
      "o", "d", "e", "m", " ", "i", "n", "d", "i", "c", "a", "r", " ", "r", "i", "s", "c", "o",
      " ", "à", " ", "s", "a", "ú", "d", "e", " ", "e", " ", "e", "x", "i", "g", "e", "m", " ",
      "m", "a", "i", "o", "r", " ", "a", "t", "e", "n", "ç", "ã", "o", ".">>

\* impact.py:48  "As mudanças graduais indicam um ambiente mais previsível e seguro."
HealthStable ==
    <<"A", "s", " ", "m", "u", "d", "a", "n", "ç", "a", "s", " ", "g", "r", "a", "d", "u", "a",
      "i", "s", " ", "i", "n", "d", "i", "c", "a", "m", " ", "u", "m", " ", "a", "m", "b", "i",
      "e", "n", "t", "e", " ", "m", "a", "i", "s", " ", "p", "r", "e", "v", "i", "s", "í", "v",
      "e", "l", " ", "e", " ", "s", "e", "g", "u", "r", "o", ".">>

\* impact.py:54  "A tendência de alta pode resultar em sensação térmica mais elevada."
ComfortUp ==
    <<"A", " ", "t", "e", "n", "d", "ê", "n", "c", "i", "a", " ", "d", "e", " ", "a", "l", "t",
      "a", " ", "p", "o", "d", "e", " ", "r", "e", "s", "u", "l", "t", "a", "r", " ", "e", "m",
      " ", "s", "e", "n", "s", "a", "ç", "ã", "o", " ", "t", "é", "r", "m", "i", "c", "a", " ",
      "m", "a", "i", "s", " ", "e", "l", "e", "v", "a", "d", "a", ".">>

\* impact.py:57  "Aumento de temperatura pode aumentar risco de desidratação."
HealthUp ==
    <<"A", "u", "m", "e", "n", "t", "o", " ", "d", "e", " ", "t", "e", "m", "p", "e", "r", "a",
      "t", "u", "r", "a", " ", "p", "o", "d", "e", " ", "a", "u", "m", "e", "n", "t", "a", "r",
      " ", "r", "i", "s", "c", "o", " ", "d", "e", " ", "d", "e", "s", "i", "d", "r", "a", "t",
      "a", "ç", "ã", "o", ".">>

\* impact.py:61  "A tendência de queda pode resultar em sensação térmica mais amena."
ComfortDown ==
    <<"A", " ", "t", "e", "n", "d", "ê", "n", "c", "i", "a", " ", "d", "e", " ", "q", "u", "e",
      "d", "a", " ", "p", "o", "d", "e", " ", "r", "e", "s", "u", "l", "t", "a", "r", " ", "e",
      "m", " ", "s", "e", "n", "s", "a", "ç", "ã", "o", " ", "t", "é", "r", "m", "i", "c", "a",
      " ", "m", "a", "i", "s", " ", "a", "m", "e", "n", "a", ".">>

\* impact.py:64  "Redução de temperatura aumenta risco de hipotermia em grupos vulneráveis."
HealthDown ==
    <<"R", "e", "d", "u", "ç", "ã", "o", " ", "d", "e", " ", "t", "e", "m", "p", "e", "r", "a",
      "t", "u", "r", "a", " ", "a", "u", "m", "e", "n", "t", "a", " ", "r", "i", "s", "c", "o",
      " ", "d", "e", " ", "h", "i", "p", "o", "t", "e", "r", "m", "i", "a", " ", "e", "m", " ",
      "g", "r", "u", "p", "o", "s", " ", "v", "u", "l", "n", "e", "r", "á", "v", "e", "i", "s",
      ".">>

\* suggestions.py:13  "Aguarde mais dados para receber sugestões climáticas."
SuggestInsufficient ==
    <<"A", "g", "u", "a", "r", "d", "e", " ", "m", "a", "i", "s", " ", "d", "a", "d", "o", "s",
      " ", "p", "a", "r", "a", " ", "r", "e", "c", "e", "b", "e", "r", " ", "s", "u", "g", "e",
      "s", "t", "õ", "e", "s", " ", "c", "l", "i", "m", "á", "t", "i", "c", "a", "s", ".">>

\* suggestions.py:20  "Considere se preparar para variações de temperatura ao longo do dia."
SuggestHigh ==
    <<"C", "o", "n", "s", "i", "d", "e", "r", "e", " ", "s", "e", " ", "p", "r", "e", "p", "a",
      "r", "a", "r", " ", "p", "a", "r", "a", " ", "v", "a", "r", "i", "a", "ç", "õ", "e", "s",
      " ", "d", "e", " ", "t", "e", "m", "p", "e", "r", "a", "t", "u", "r", "a", " ", "a", "o",
      " ", "l", "o", "n", "g", "o", " ", "d", "o", " ", "d", "i", "a", ".">>

\* suggestions.py:24  "Leve em conta possíveis mudanças térmicas durante o período."
SuggestModerate ==
    <<"L", "e", "v", "e", " ", "e", "m", " ", "c", "o", "n", "t", "a", " ", "p", "o", "s", "s",
      "í", "v", "e", "i", "s", " ", "m", "u", "d", "a", "n", "ç", "a", "s", " ", "t", "é", "r",
      "m", "i", "c", "a", "s", " ", "d", "u", "r", "a", "n", "t", "e", " ", "o", " ", "p", "e",
      "r", "í", "o", "d", "o", ".">>

\* suggestions.py:30  "Tenha uma opção extra de roupa para lidar com mudanças rápidas de clima."
SuggestUnstable ==
    <<"T", "e", "n", "h", "a", " ", "u", "m", "a", " ", "o", "p", "ç", "ã", "o", " ", "e", "x",
      "t", "r", "a", " ", "d", "e", " ", "r", "o", "u", "p", "a", " ", "p", "a", "r", "a", " ",
      "l", "i", "d", "a", "r", " ", "c", "o", "m", " ", "m", "u", "d", "a", "n", "ç", "a", "s",
      " ", "r", "á", "p", "i", "d", "a", "s", " ", "d", "e", " ", "c", "l", "i", "m", "a", ".">>

\* suggestions.py:34  "As condições estáveis favorecem o planejamento de atividades externas."
SuggestStable ==
    <<"A", "s", " ", "c", "o", "n", "d", "i", "ç", "õ", "e", "s", " ", "e", "s", "t", "á", "v",
      "e", "i", "s", " ", "f", "a", "v", "o", "r", "e", "c", "e", "m", " ", "o", " ", "p", "l",
      "a", "n", "e", "j", "a", "m", "e", "n", "t", "o", " ", "d", "e", " ", "a", "t", "i", "v",
      "i", "d", "a", "d", "e", "s", " ", "e", "x", "t", "e", "r", "n", "a", "s", ".">>

\* suggestions.py:40  "Roupas mais leves podem ser mais confortáveis."
SuggestUp ==
    <<"R", "o", "u", "p", "a", "s", " ", "m", "a", "i", "s", " ", "l", "e", "v", "e", "s", " ",
      "p", "o", "d", "e", "m", " ", "s", "e", "r", " ", "m", "a", "i", "s", " ", "c", "o", "n",
      "f", "o", "r", "t", "á", "v", "e", "i", "s", ".">>

\* suggestions.py:44  "Uma camada adicional de roupa pode ser útil."
SuggestDown ==
    <<"U", "m", "a", " ", "c", "a", "m", "a", "d", "a", " ", "a", "d", "i", "c", "i", "o", "n",
      "a", "l", " ", "d", "e", " ", "r", "o", "u", "p", "a", " ", "p", "o", "d", "e", " ", "s",
      "e", "r", " ", "ú", "t", "i", "l", ".">>
----------------------------------------------------------------------------
(* analysis/interpretation.py *)

\* lines 13-18
TrendText(trend) ==
    IF trend = "up" THEN TrendTextUp
    ELSE IF trend = "down" THEN TrendTextDown
    ELSE TrendTextStable

\* mutant: moderate worded like low
VariationTextMerged(variation) ==
    IF variation = "low" \/ variation = "moderate" THEN VariationTextLow
    ELSE VariationTextHigh

\* lines 21-26
VariationText(variation) ==
    IF variation = "low" THEN VariationTextLow
    ELSE IF variation = "moderate" THEN VariationTextModerate
    ELSE VariationTextHigh

\* lines 29-32
StabilityText(stability) ==
    IF stability = "stable" THEN StabilityTextStable
    ELSE StabilityTextUnstable

\* mutant: the second comma left out
FormatSentenceOneComma(trend_text, variation_text, stability_text) ==
    trend_text \o <<",", " ">> \o variation_text \o <<" ">> \o stability_text \o <<".">>

\* line 34: f"{trend_text}, {variation_text}, {stability_text}."
FormatSentence(trend_text, variation_text, stability_text) ==
    trend_text \o <<",", " ">> \o variation_text \o <<",", " ">> \o stability_text \o <<".">>

interpret_temperature_analysis(a) ==
    IF a.trend = "insufficient_data" THEN InsufficientInterpretation
    ELSE FormatSentence(TrendText(a.trend), VariationText(a.variation),
                        StabilityText(a.stability))

----------------------------------------------------------------------------
(* analysis/impact.py *)

\* lines 15-16
NoMessages == [health |-> <<>>, comfort |-> <<>>]

\* lines 19-40
ImpactOfVariation(variation, m) ==
    IF variation = "high"
    THEN [health |-> Append(m.health, HealthHigh), comfort |-> Append(m.comfort, ComfortHigh)]
    ELSE IF variation = "moderate"
    THEN [health |-> Append(m.health, HealthModerate),
          comfort |-> Append(m.comfort, ComfortModerate)]
    ELSE [health |-> Append(m.health, HealthLow), comfort |-> Append(m.comfort, ComfortLow)]

\* mutant: the stability message appended to both lists
ImpactOfStabilityBoth(stability, m) ==
    IF stability = "unstable"
    THEN [health |-> Append(m.health, HealthUnstable),
          comfort |-> Append(m.comfort, HealthUnstable)]
    ELSE [health |-> Append(m.health, HealthStable),
          comfort |-> Append(m.comfort, HealthStable)]

\* lines 42-49
ImpactOfStability(stability, m) ==
    IF stability = "unstable"
    THEN [m EXCEPT !.health = Append(@, HealthUnstable)]
    ELSE [m EXCEPT !.health = Append(@, HealthStable)]

\* mutant: an empty message appended when the trend is stable
ImpactOfTrendEmpty(trend, m) ==
    IF trend = "up"
    THEN [health |-> Append(m.health, HealthUp), comfort |-> Append(m.comfort, ComfortUp)]
    ELSE IF trend = "down"
    THEN [health |-> Append(m.health, HealthDown), comfort |-> Append(m.comfort, ComfortDown)]
    ELSE [health |-> Append(m.health, <<>>), comfort |-> Append(m.comfort, <<>>)]

\* lines 52-65
ImpactOfTrend(trend, m) ==
    IF trend = "up"
    THEN [health |-> Append(m.health, HealthUp), comfort |-> Append(m.comfort, ComfortUp)]
    ELSE IF trend = "down"
    THEN [health |-> Append(m.health, HealthDown), comfort |-> Append(m.comfort, ComfortDown)]
    ELSE m

\* lines 67-70
JoinMessages(m) ==
    [health |-> join(<<" ">>, m.health), comfort |-> join(<<" ">>, m.comfort)]

\* mutant: the guard reads variation instead of trend
assess_impact_guard_on_variation(a) ==
    IF a.variation = "insufficient_data"
    THEN [health |-> HealthInsufficient, comfort |-> ComfortInsufficient]
    ELSE JoinMessages(ImpactOfTrend(a.trend,
            ImpactOfStability(a.stability, ImpactOfVariation(a.variation, NoMessages))))

\* mutant: the variation thresholds applied again, to the rounded amplitude
assess_impact_reading_amplitude(a) ==
    IF a.trend = "insufficient_data"
    THEN [health |-> HealthInsufficient, comfort |-> ComfortInsufficient]
    ELSE JoinMessages(ImpactOfTrend(a.trend,
            ImpactOfStability(a.stability,
                ImpactOfVariation(IF a.amplitude # None /\ a.amplitude[1] >= 500
                                  THEN "high" ELSE a.variation, NoMessages))))

\* the two message lists before they are joined
ImpactMessages(a) ==
    ImpactOfTrend(a.trend, ImpactOfStability(a.stability, ImpactOfVariation(a.variation, NoMessages)))

assess_temperature_impact(a) ==
    IF a.trend = "insufficient_data"
    THEN [health |-> HealthInsufficient, comfort |-> ComfortInsufficient]
    ELSE JoinMessages(ImpactMessages(a))

----------------------------------------------------------------------------
(* analysis/suggestions.py *)

\* mutant: else in place of elif, so low gets the moderate suggestion
SuggestForVariationElse(variation, s) ==
    IF variation = "high" THEN Append(s, SuggestHigh)
    ELSE Append(s, SuggestModerate)

\* lines 18-25
SuggestForVariation(variation, s) ==
    IF variation = "high" THEN Append(s, SuggestHigh)
    ELSE IF variation = "moderate" THEN Append(s, SuggestModerate)
    ELSE s

\* lines 28-35
SuggestForStability(stability, s) ==
    IF stability = "unstable" THEN Append(s, SuggestUnstable)
    ELSE Append(s, SuggestStable)

\* lines 38-45
SuggestForTrend(trend, s) ==
    IF trend = "up" THEN Append(s, SuggestUp)
    ELSE IF trend = "down" THEN Append(s, SuggestDown)
    ELSE s

\* mutant: the trend block moved to the front
suggest_actions_trend_first(a, imp) ==
    IF a.trend = "insufficient_data" THEN <<SuggestInsufficient>>
    ELSE SuggestForStability(a.stability,
            SuggestForVariation(a.variation, SuggestForTrend(a.trend, <<>>)))

\* mutant: no suggestions but the fixed one when the impact could not be assessed
suggest_actions_reading_impact(a, imp) ==
    IF a.trend = "insufficient_data" \/ imp.health = HealthInsufficient
    THEN <<SuggestInsufficient>>
    ELSE SuggestForTrend(a.trend,
            SuggestForStability(a.stability, SuggestForVariation(a.variation, <<>>)))

\* the impact argument is never read
suggest_actions_from_temperature(a, imp) ==
    IF a.trend = "insufficient_data" THEN <<SuggestInsufficient>>
    ELSE SuggestForTrend(a.trend,
            SuggestForStability(a.stability, SuggestForVariation(a.variation, <<>>)))

----------------------------------------------------------------------------
(* insights/temperature_insight.py: build_temperature_insight, one action   *)
(* per statement; and the stage functions called directly, on a dict the    *)
(* caller has chosen                                                        *)

\* insights/temperature_insight.py, lines 54-82: build_temperature_insight as one call
build_temperature_insight(temps) ==
    LET a == analyze_temperature(temps)
    IN  IF a.exc # "none" THEN a
        ELSE Return(<< <<"analysis", a.ret>>,
                       <<"interpretation", interpret_temperature_analysis(a.ret)>>,
                       <<"impact", assess_temperature_impact(a.ret)>>,
                       <<"suggestions",
                         suggest_actions_from_temperature(a.ret, assess_temperature_impact(a.ret))>> >>)

Trends == {"up", "down", "stable", "insufficient_data"}
Variations == {"low", "moderate", "high", "insufficient_data"}
Stabilities == {"stable", "unstable", "insufficient_data"}

\* the dicts a direct caller hands to the stage functions
StageArgs ==
    {[InsufficientAnalysis EXCEPT !.trend = t, !.variation = v, !.stability = s] :
        t \in Trends, v \in Variations, s \in Stabilities}

NoImpact == [health |-> <<>>, comfort |-> <<>>]

\* the impact values a direct caller hands to suggest_actions_from_temperature
ImpactArgs ==
    {NoImpact} \cup {assess_temperature_impact(a) : a \in StageArgs}

NoResponse == [request |-> <<>>, status |-> 0, body |-> <<>>]
NoOutcome == [city |-> <<>>, exc |-> "unset", ret |-> <<>>, at |-> 0, fetched |-> FALSE, calls |-> 0,
              status_code |-> 0]
NoDashboard == [pc |-> "idle"]

Unset == [trend |-> "unset", variation |-> "unset", stability |-> "unset",
          min |-> None, max |-> None, average |-> None, amplitude |-> None]
Init ==
    /\ \/ /\ caller = "build_temperature_insight"
          /\ temperatures \in Inputs
          /\ pc = "analyze"
          /\ analysis = Unset
       \/ /\ caller = "stage_call"
          /\ temperatures = <<>>
          /\ pc = "interpret"
          /\ analysis \in StageArgs
    /\ interpretation = <<>>
    /\ impact = NoImpact
    /\ impact_arg = NoImpact
    /\ suggestions = <<>>
    /\ exception = "none"
    /\ insight = <<>>
    /\ earlier = <<>>
    /\ db = <<>>
    /\ now = 0
    /\ response = NoResponse
    /\ cache = {}
    /\ provider_calls = 0
    /\ outcome = NoOutcome
    /\ dashboard = NoDashboard

\* line 67: analysis = analyze_temperature(temperatures)
Analyze ==
    /\ pc = "analyze"
    /\ LET r == analyze_temperature(temperatures)
       IN  IF r.exc = "none"
           THEN /\ analysis' = r.ret
                /\ pc' = "interpret"
                /\ UNCHANGED exception
           ELSE /\ exception' = r.exc
                /\ pc' = "raised"
                /\ UNCHANGED analysis
    /\ UNCHANGED <<caller, temperatures, interpretation, impact, impact_arg, suggestions, insight,
                   env>>

\* line 70: interpretation = interpret_temperature_analysis(analysis)
Interpret ==
    /\ pc = "interpret"
    /\ interpretation' = interpret_temperature_analysis(analysis)
    /\ pc' = "assess"
    /\ UNCHANGED <<caller, temperatures, analysis, impact, impact_arg, suggestions, exception,
                   insight, env>>

\* a stage 3 that also writes into the dict it was handed
AssessImpactMutating ==
    /\ pc = "assess"
    /\ impact' = assess_temperature_impact(analysis)
    /\ analysis' = [analysis EXCEPT !.amplitude = None]
    /\ pc' = "suggest"
    /\ UNCHANGED <<caller, temperatures, interpretation, impact_arg, suggestions, exception,
                   insight, env>>

\* line 72: impact = assess_temperature_impact(analysis)
AssessImpact ==
    /\ pc = "assess"
    /\ impact' = assess_temperature_impact(analysis)
    /\ pc' = "suggest"
    /\ UNCHANGED <<caller, temperatures, analysis, interpretation, impact_arg, suggestions,
                   exception, insight, env>>

\* a stage 4 that appends to one list shared by all calls (the list of the dict returned
\* before)
SuggestIntoSharedList ==
    /\ pc = "suggest"
    /\ impact_arg' = impact
    /\ suggestions' = (IF insight = <<>> THEN <<>> ELSE insight[4][2])
                            \o suggest_actions_from_temperature(analysis, impact)
    /\ pc' = "return"
    /\ UNCHANGED <<caller, temperatures, analysis, interpretation, impact, exception, insight,
                   env>>

\* line 74: suggestions = suggest_actions_from_temperature(analysis, impact); a direct
\* caller hands over an impact of its own choice
Suggest ==
    /\ pc = "suggest"
    /\ \E imp \in (IF caller = "stage_call" THEN ImpactArgs ELSE {impact}) :
            /\ impact_arg' = imp
            /\ suggestions' = suggest_actions_from_temperature(analysis, imp)
    /\ pc' = "return"
    /\ UNCHANGED <<caller, temperatures, analysis, interpretation, impact, exception, insight,
                   env>>

\* lines 77-82: the returned dict, keys in insertion order
ReturnInsight ==
    /\ pc = "return"
    /\ caller = "build_temperature_insight"
    /\ insight' = << <<"analysis", analysis>>, <<"interpretation", interpretation>>,
                     <<"impact", impact>>, <<"suggestions", suggestions>> >>
    /\ pc' = "returned"
    /\ UNCHANGED <<caller, temperatures, analysis, interpretation, impact, impact_arg, suggestions,
                   exception, env>>

Next == Analyze \/ Interpret \/ AssessImpact \/ Suggest \/ ReturnInsight

Spec == Init /\ [][Next]_vars

----------------------------------------------------------------------------
(* build_temperature_insight called again and again by one caller, which    *)
(* remembers one of the earlier calls                                       *)

MaxCallLen == 2
MaxBetween == 2
CallTemps == {0, 6 * Scale}
CallInputs == UNION {[1..n -> CallTemps] : n \in 0..MaxCallLen}

InitCalls ==
    /\ caller = "build_temperature_insight"
    /\ temperatures \in CallInputs
    /\ pc = "analyze"
    /\ analysis = Unset
    /\ interpretation = <<>>
    /\ impact = NoImpact
    /\ impact_arg = NoImpact
    /\ suggestions = <<>>
    /\ exception = "none"
    /\ insight = <<>>
    /\ earlier = <<>>
    /\ db = <<>>
    /\ now = 0
    /\ response = NoResponse
    /\ cache = {}
    /\ provider_calls = 0
    /\ outcome = NoOutcome
    /\ dashboard = NoDashboard

\* lines 54-56: the next call; its locals are new, the dict returned before stays with the
\* caller
CallAgain ==
    /\ caller = "build_temperature_insight"
    /\ pc = "returned"
    /\ \E t \in CallInputs : temperatures' = t
    /\ \/ earlier' = [arg |-> temperatures, result |-> insight, between |-> 1]
       \/ /\ earlier # <<>>
          /\ earlier.between < MaxBetween
          /\ earlier' = [earlier EXCEPT !.between = @ + 1]
       \/ /\ earlier = <<>>
          /\ earlier' = earlier
    /\ pc' = "analyze"
    /\ analysis' = Unset
    /\ interpretation' = <<>>
    /\ impact' = NoImpact
    /\ impact_arg' = NoImpact
    /\ suggestions' = <<>>
    /\ UNCHANGED services
    /\ UNCHANGED <<caller, exception, insight, db, now, response>>

NextCalls == Next \/ CallAgain

CallsSpec == InitCalls /\ [][NextCalls]_vars

----------------------------------------------------------------------------
(* build_temperature_insight called with any list of floats, the non-finite *)
(* ones included                                                            *)

MaxFloatLen == 3
AnyFloat == {0, Scale} \cup NonFinite
AnyFloatInputs == UNION {[1..n -> AnyFloat] : n \in 0..MaxFloatLen}

InitAnyFloat ==
    /\ caller = "build_temperature_insight"
    /\ temperatures \in AnyFloatInputs
    /\ pc = "analyze"
    /\ analysis = Unset
    /\ interpretation = <<>>
    /\ impact = NoImpact
    /\ impact_arg = NoImpact
    /\ suggestions = <<>>
    /\ exception = "none"
    /\ insight = <<>>
    /\ earlier = <<>>
    /\ db = <<>>
    /\ now = 0
    /\ response = NoResponse
    /\ cache = {}
    /\ provider_calls = 0
    /\ outcome = NoOutcome
    /\ dashboard = NoDashboard

SpecAnyFloat == InitAnyFloat /\ [][Next]_vars

----------------------------------------------------------------------------
(* The WeatherRecord table and the two views that call                      *)
(* build_temperature_insight.  One request is handled at a time; a handler  *)
(* is one action.  City names are sequences of characters.                  *)

MaxRecords == 2
MaxClock == 26
Hours == 24
HistoryLimit == 10

\* str.lower and str.strip
Lower(ch) == CASE ch = "L" -> "l" [] ch = "O" -> "o" [] ch = "P" -> "p" [] ch = "A" -> "a"
               [] OTHER -> ch
lower(str) == [i \in 1..Len(str) |-> Lower(str[i])]
RECURSIVE lstrip(_)
lstrip(str) == IF str # <<>> /\ Head(str) = " " THEN lstrip(Tail(str)) ELSE str
Reverse(seq) == [i \in 1..Len(seq) |-> seq[Len(seq) + 1 - i]]
strip(str) == Reverse(lstrip(Reverse(lstrip(str))))

\* the city names the writers store (the provider's spelling in home.py, the normalized one in
\* weather_service.py), the temperatures they store, and the city parameter of a request
\* (<<>> when it is missing or empty)
StoredCities == {<<"L", "o">>, <<"p", "a">>}
StoredTemps == {0, 3 * Scale}
CityParams == {<<>>, <<" ", "L", "O">>, <<"p", "a">>}

\* mutant: the slice [:limit] left out
get_city_history_unlimited(city, limit) ==
    Reverse(SelectSeq(db, LAMBDA r : lower(r.city) = lower(strip(city))))

\* history.py, lines 57-60: filter(city__iexact=city.strip()).order_by("-created_at")[:limit];
\* the rows of db are in the order of their created_at
get_city_history(city, limit) ==
    LET rows == Reverse(SelectSeq(db, LAMBDA r : lower(r.city) = lower(strip(city))))
    IN  SubSeq(rows, 1, IF Len(rows) < limit THEN Len(rows) ELSE limit)

\* weather_service.py, lines 166-172: filter(city=city.strip().lower(),
\* created_at__gte=since).order_by("created_at")
RecentRecords(city) ==
    LET since == now - Hours
    IN  SelectSeq(db, LAMBDA r : r.city = lower(strip(city)) /\ r.created_at >= since)

\* weather_service.py, lines 143-175
get_recent_temperatures_for_city(city) ==
    [i \in 1..Len(RecentRecords(city)) |-> RecentRecords(city)[i].temperature]

InitView ==
    /\ caller = "none"
    /\ temperatures = <<>>
    /\ pc = "idle"
    /\ analysis = Unset
    /\ interpretation = <<>>
    /\ impact = NoImpact
    /\ impact_arg = NoImpact
    /\ suggestions = <<>>
    /\ exception = "none"
    /\ insight = <<>>
    /\ earlier = <<>>
    /\ db = <<>>
    /\ now = 0
    /\ response = NoResponse
    /\ cache = {}
    /\ provider_calls = 0
    /\ outcome = NoOutcome
    /\ dashboard = NoDashboard

\* WeatherRecord.objects.create(...): created_at is the time of the insert, and no two rows
\* are inserted at the same time
SaveRecord ==
    /\ response = NoResponse
    /\ Len(db) < MaxRecords
    /\ now + 1 <= MaxClock
    /\ \E c \in StoredCities, t \in StoredTemps :
            db' = Append(db, [city |-> c, temperature |-> t, created_at |-> now])
    /\ now' = now + 1
    /\ UNCHANGED services
    /\ UNCHANGED <<caller, temperatures, pc, analysis, interpretation, impact, impact_arg,
                   suggestions, exception, insight, earlier, response>>

\* a day passes
Tick ==
    /\ response = NoResponse
    /\ now + Hours <= MaxClock
    /\ now' = now + Hours
    /\ UNCHANGED services
    /\ UNCHANGED <<caller, temperatures, pc, analysis, interpretation, impact, impact_arg,
                   suggestions, exception, insight, earlier, db, response>>

\* api/views/temperature_insight.py, lines 32-128; a failing database query is the exception
\* of the try block
ApiView ==
    /\ response = NoResponse
    /\ \E city \in CityParams, query_fails \in BOOLEAN :
         LET history_records == get_city_history(city, HistoryLimit)
             temps == [i \in 1..Len(history_records) |-> history_records[i].temperature]
             built == build_temperature_insight(temps)
         IN  /\ caller' = "api.views.temperature_insight"
             /\ IF city = <<>>
                THEN /\ response' = [request |-> city, status |-> 400,
                                     body |-> << <<"error", "Parâmetro 'city' é obrigatório.">> >>]
                     /\ UNCHANGED <<temperatures, insight, exception>>
                ELSE IF query_fails \/ (history_records # <<>> /\ built.exc # "none")
                THEN /\ response' = [request |-> city, status |-> 500,
                                     body |-> << <<"error", "Ocorreu um erro inesperado ao gerar a análise de temperatura.">> >>]
                     /\ exception' = IF query_fails THEN "OperationalError" ELSE built.exc
                     /\ UNCHANGED <<temperatures, insight>>
                ELSE IF history_records = <<>>
                THEN /\ response' = [request |-> city, status |-> 404,
                                     body |-> << <<"error", <<"Não há dados históricos de temperatura para a cidade de '", city, "'.">> >> >>]
                     /\ UNCHANGED <<temperatures, insight, exception>>
                ELSE /\ temperatures' = temps
                     /\ insight' = built.ret
                     /\ response' = [request |-> city, status |-> 200,
                                     body |-> << <<"city", history_records[1].city>>,
                                                 <<"insight", built.ret>> >>]
                     /\ UNCHANGED exception
    /\ UNCHANGED services
    /\ UNCHANGED <<pc, analysis, interpretation, impact, impact_arg, suggestions,
                   earlier, db, now>>

\* fetch_weather(city), which core/views/temperature_insight.py imports from
\* weather.services.weather_service: it updates and persists the current weather of the
\* city, or raises.  The rows it may leave in the table:
fetch_weather(city) ==
    {Append(db, [city |-> lower(strip(city)), temperature |-> t, created_at |-> now]) :
        t \in StoredTemps}

\* core/views/temperature_insight.py, lines 58-93; an exception of fetch_weather leaves the
\* handler and is answered with 500
CoreView ==
    /\ response = NoResponse
    /\ caller' = "core.views.temperature_insight"
    /\ \E city \in CityParams, fetch_raises \in BOOLEAN :
         IF city = <<>>
         THEN /\ response' = [request |-> city, status |-> 400,
                              body |-> << <<"error", "The 'city' parameter is required">> >>]
              /\ UNCHANGED <<temperatures, insight, db, now>>
         ELSE IF fetch_raises \/ Len(db) >= MaxRecords \/ now + 1 > MaxClock
         THEN /\ response' = [request |-> city, status |-> 500, body |-> <<>>]
              /\ UNCHANGED <<temperatures, insight, db, now>>
         ELSE \E rows \in fetch_weather(city) :
                /\ db' = rows
                /\ now' = now + 1
                /\ LET temps == get_recent_temperatures_for_city(city)'
                       built == build_temperature_insight(temps)
                   IN  IF Len(temps) < 2
                       THEN /\ response' = [request |-> city, status |-> 422,
                                            body |-> << <<"error", "Insufficient data for temperature trend analysis">> >>]
                            /\ UNCHANGED <<temperatures, insight>>
                       ELSE /\ temperatures' = temps
                            /\ insight' = built.ret
                            /\ response' = [request |-> city, status |-> 200,
                                            body |-> << <<"city", city>> >> \o built.ret]
    /\ UNCHANGED services
    /\ UNCHANGED <<pc, analysis, interpretation, impact, impact_arg, suggestions, exception,
                   earlier>>

\* the response is sent; the next request finds nothing of this one
Deliver ==
    /\ response # NoResponse
    /\ response' = NoResponse
    /\ caller' = "none"
    /\ temperatures' = <<>>
    /\ insight' = <<>>
    /\ exception' = "none"
    /\ UNCHANGED services
    /\ UNCHANGED <<pc, analysis, interpretation, impact, impact_arg, suggestions,
                   earlier, db, now>>

\* the api view on a table that has grown: tables of 0 to 2 rows, and of 11 and 12 rows
\* whose cities and temperatures follow a pattern
LongRows == {11, 12}
Pattern(n, k, m) ==
    [i \in 1..n |-> [city |-> IF i % m = 0 THEN <<"p", "a">> ELSE <<"L", "o">>,
                     temperature |-> ((i * k) % 7) * Scale,
                     created_at |-> i - 1]]
ApiTables ==
    {Pattern(n, k, m) : n \in 0..2, k \in 1..2, m \in 1..2}
        \cup {Pattern(n, k, m) : n \in LongRows, k \in 1..3, m \in {2, 12, 13}}

InitApi ==
    /\ caller = "none"
    /\ temperatures = <<>>
    /\ pc = "idle"
    /\ analysis = Unset
    /\ interpretation = <<>>
    /\ impact = NoImpact
    /\ impact_arg = NoImpact
    /\ suggestions = <<>>
    /\ exception = "none"
    /\ insight = <<>>
    /\ earlier = <<>>
    /\ db \in ApiTables
    /\ now = Len(db)
    /\ response = NoResponse
    /\ cache = {}
    /\ provider_calls = 0
    /\ outcome = NoOutcome
    /\ dashboard = NoDashboard

NextApi == ApiView \/ Deliver

ApiSpec == InitApi /\ [][NextApi]_vars

NextView == SaveRecord \/ Tick \/ ApiView \/ CoreView \/ Deliver

ViewSpec == InitView /\ [][NextView]_vars

----------------------------------------------------------------------------
(* core/services/climate_service.py: ClimateService.get_weather_by_city,    *)
(* the cache and the weather provider.  The clock counts seconds here.      *)

MaxProviderCalls == 2
CACHE_TIMEOUT == 60 * 10
HalfTimeout == CACHE_TIMEOUT \div 2
MaxSeconds == CACHE_TIMEOUT + HalfTimeout

\* str.replace(" ", "_")
replace_spaces(str) == [i \in 1..Len(str) |-> IF str[i] = " " THEN "_" ELSE str[i]]

\* mutant: the key made of the city as it was typed
_get_cache_key_as_typed(city) == <<"w", "e", "a", "t", "h", "e", "r", ":">> \o city

\* lines 133-147: f"weather:{city.lower().strip().replace(' ', '_')}"
_get_cache_key(city) ==
    <<"w", "e", "a", "t", "h", "e", "r", ":">> \o replace_spaces(strip(lower(city)))

\* the city argument of a call
ServiceCities == {<<"L", "o">>, <<" ", "l", "o", " ">>, <<"p", " ", "a">>}

\* the JSON documents the provider answers a request for a city with: its own spelling of
\* the name and the weather of the moment; one document lacks the wind
ProviderTemps == {18 * Scale, 31 * Scale}
ProviderName(city) == IF strip(lower(city)) = <<"l", "o">> THEN <<"L", "o">> ELSE <<"P", " ", "A">>
ProviderJson(city) ==
    {[name |-> ProviderName(city),
      main |-> [temp |-> t, feels_like |-> t, humidity |-> 70],
      weather |-> <<[description |-> "nublado"]>>,
      wind |-> [speed |-> 3]] : t \in ProviderTemps}
        \cup {[name |-> ProviderName(city),
                main |-> [temp |-> 18 * Scale, feels_like |-> 18 * Scale, humidity |-> 70],
                weather |-> <<[description |-> "nublado"]>>]}

\* what requests.get ends with: an exception, or a response with a status code and a body
ProviderReplies(city) ==
    {[exc |-> "RequestException", status_code |-> 0, json |-> <<>>]}
        \cup {[exc |-> "none", status_code |-> c, json |-> <<>>] : c \in {401, 404, 500}}
        \cup {[exc |-> "none", status_code |-> 200, json |-> d] : d \in ProviderJson(city)}

\* lines 149-170
_normalize_weather_data(data) ==
    IF "wind" \notin DOMAIN data THEN Raise("KeyError")
    ELSE Return([city |-> data.name,
                 temperature |-> data.main.temp,
                 feels_like |-> data.main.feels_like,
                 humidity |-> data.main.humidity,
                 condition |-> data.weather[1].description,
                 wind_speed |-> data.wind.speed])

\* a Python value that is not None
Some(v) == <<v>>

\* cache.get(key): the value of the entry under the key that has not expired, else None
cache_get(key) ==
    IF \E e \in cache : e.key = key /\ now < e.expires
    THEN Some((CHOOSE e \in cache : e.key = key /\ now < e.expires).value)
    ELSE None

\* cache.set(key, value, timeout): the entries after the call
cache_set(key, value, timeout) ==
    {e \in cache : e.key # key} \cup {[key |-> key, value |-> value, expires |-> now + timeout]}

\* mutant: no test for status 401
get_weather_by_city_no_auth_check(city, reply) ==
    LET cache_key == _get_cache_key(city)
        cached_data == cache_get(cache_key)
        normalized_data == _normalize_weather_data(reply.json)
        failed(exc) == [exc |-> exc, ret |-> None, fetched |-> TRUE, cache |-> cache]
    IN  IF cached_data # None
        THEN [exc |-> "none", ret |-> cached_data, fetched |-> FALSE, cache |-> cache]
        ELSE IF reply.exc = "RequestException" THEN failed("ClimateAPIUnavailableError")
        ELSE IF reply.status_code = 404 THEN failed("CityNotFoundError")
        ELSE IF reply.status_code # 200 THEN failed("ClimateAPIUnavailableError")
        ELSE IF normalized_data.exc # "none" THEN failed(normalized_data.exc)
        ELSE [exc |-> "none", ret |-> Some(normalized_data.ret), fetched |-> TRUE,
              cache |-> cache_set(cache_key, normalized_data.ret, CACHE_TIMEOUT)]

\* lines 56-131, for one reply of the provider (looked at only when the cache has no
\* entry): how the call ends, whether the provider was called, and the cache afterwards
get_weather_by_city(city, reply) ==
    LET cache_key == _get_cache_key(city)
        cached_data == cache_get(cache_key)
        normalized_data == _normalize_weather_data(reply.json)
        failed(exc) == [exc |-> exc, ret |-> None, fetched |-> TRUE, cache |-> cache]
    IN  IF cached_data # None
        THEN [exc |-> "none", ret |-> cached_data, fetched |-> FALSE, cache |-> cache]
        ELSE IF reply.exc = "RequestException" THEN failed("ClimateAPIUnavailableError")
        ELSE IF reply.status_code = 401 THEN failed("ClimateAPIAuthError")
        ELSE IF reply.status_code = 404 THEN failed("CityNotFoundError")
        ELSE IF reply.status_code # 200 THEN failed("ClimateAPIUnavailableError")
        ELSE IF normalized_data.exc # "none" THEN failed(normalized_data.exc)
        ELSE [exc |-> "none", ret |-> Some(normalized_data.ret), fetched |-> TRUE,
              cache |-> cache_set(cache_key, normalized_data.ret, CACHE_TIMEOUT)]

InitClimate ==
    /\ caller = "none"
    /\ temperatures = <<>>
    /\ pc = "idle"
    /\ analysis = Unset
    /\ interpretation = <<>>
    /\ impact = NoImpact
    /\ impact_arg = NoImpact
    /\ suggestions = <<>>
    /\ exception = "none"
    /\ insight = <<>>
    /\ earlier = NoOutcome
    /\ db = <<>>
    /\ now = 0
    /\ response = NoResponse
    /\ cache = {}
    /\ provider_calls = 0
    /\ outcome = NoOutcome
    /\ dashboard = NoDashboard

\* one call of ClimateService().get_weather_by_city(city); the caller keeps the outcome of
\* the call before
GetWeatherByCity ==
    /\ \E city \in ServiceCities :
         \E reply \in ProviderReplies(city) :
            LET r == get_weather_by_city(city, reply)
            IN  /\ r.fetched => provider_calls < MaxProviderCalls
                /\ cache' = r.cache
                /\ provider_calls' = IF r.fetched THEN provider_calls + 1 ELSE provider_calls
                /\ outcome' = [city |-> city, exc |-> r.exc, ret |-> r.ret, at |-> now,
                               fetched |-> r.fetched, calls |-> provider_calls',
                               status_code |-> IF r.fetched THEN reply.status_code ELSE 0]
    /\ earlier' = outcome
    /\ UNCHANGED <<caller, temperatures, pc, analysis, interpretation, impact, impact_arg,
                   suggestions, exception, insight, db, now, response, dashboard>>

\* five minutes pass
WaitHalfTimeout ==
    /\ now + HalfTimeout <= MaxSeconds
    /\ now' = now + HalfTimeout
    /\ UNCHANGED <<caller, temperatures, pc, analysis, interpretation, impact, impact_arg,
                   suggestions, exception, insight, earlier, db, response, services>>

NextClimate == GetWeatherByCity \/ WaitHalfTimeout

ClimateSpec == InitClimate /\ [][NextClimate]_vars

----------------------------------------------------------------------------
(* The dashboard: core/insights/comfort.py, weather/services/weather.py,     *)
(* weather/clients.py and dashboard/views.py                                 *)

\* a Python dict with string keys is a function on its keys; dict.get(key)
get(d, key) == IF key \in DOMAIN d THEN d[key] ELSE None

\* the temperatures (units of 1/Scale degree), humidities and wind speeds of a snapshot
ComfortTemps == {10 * Scale, 10 * Scale + 1, 30 * Scale - 1, 30 * Scale}
Humidities == {69, 70}
WindSpeeds == {0, 40}

\* the dicts thermal_comfort_insight is called with: any of the three keys may be absent,
\* and the value under a key may be None
ComfortDicts ==
    {d \in UNION {[K -> {None} \cup {Float(v) : v \in ComfortTemps \cup Humidities \cup WindSpeeds}] :
                    K \in SUBSET {"temperature", "humidity", "wind_speed"}} :
        /\ get(d, "temperature") \in {None} \cup {Float(v) : v \in ComfortTemps}
        /\ get(d, "humidity") \in {None} \cup {Float(v) : v \in Humidities}
        /\ get(d, "wind_speed") \in {None} \cup {Float(v) : v \in WindSpeeds}}

UnknownSummary == "Dados insuficientes para avaliar o conforto térmico"
HotHumidSummary == "Sensação de calor intenso e abafado"
ColdSummary == "Sensação de frio acentuado"
ModerateSummary == "Condições térmicas razoavelmente confortáveis"

\* comfort.py lines 18-27: the factors, in the order they are appended
Factors(temperature, humidity) ==
    (IF humidity >= 70 THEN <<"high_humidity">> ELSE <<>>)
        \o (IF temperature >= 30 * Scale THEN <<"high_temperature">> ELSE <<>>)
        \o (IF temperature <= 10 * Scale THEN <<"low_temperature">> ELSE <<>>)

\* x in factors
In(x, factors) == \E i \in 1..Len(factors) : factors[i] = x

\* mutant: heat alone taken as low comfort, whatever the humidity
thermal_comfort_insight_heat_alone(weather_data) ==
    LET temperature == get(weather_data, "temperature")
        humidity == get(weather_data, "humidity")
    IN  IF temperature = None \/ humidity = None
        THEN [level |-> "unknown", summary |-> UnknownSummary, factors |-> <<>>]
        ELSE LET factors == Factors(temperature[1], humidity[1])
             IN  IF In("high_temperature", factors)
                 THEN [level |-> "low", summary |-> HotHumidSummary, factors |-> factors]
                 ELSE IF In("low_temperature", factors)
                 THEN [level |-> "low", summary |-> ColdSummary, factors |-> factors]
                 ELSE [level |-> "moderate", summary |-> ModerateSummary, factors |-> factors]

\* comfort.py lines 2-47
thermal_comfort_insight(weather_data) ==
    LET temperature == get(weather_data, "temperature")
        humidity == get(weather_data, "humidity")
        wind_speed == get(weather_data, "wind_speed")
    IN  IF temperature = None \/ humidity = None
        THEN [level |-> "unknown", summary |-> UnknownSummary, factors |-> <<>>]
        ELSE LET factors == Factors(temperature[1], humidity[1])
             IN  IF In("high_temperature", factors) /\ In("high_humidity", factors)
                 THEN [level |-> "low", summary |-> HotHumidSummary, factors |-> factors]
                 ELSE IF In("low_temperature", factors)
                 THEN [level |-> "low", summary |-> ColdSummary, factors |-> factors]
                 ELSE [level |-> "moderate", summary |-> ModerateSummary, factors |-> factors]

\* dashboard/views.py lines 129-136: INSIGHT_UI_LEVEL_MAP.get(raw_level, "neutral")
INSIGHT_UI_LEVEL_MAP(raw_level) ==
    IF raw_level = "unknown" THEN "neutral"
    ELSE IF raw_level = "moderate" THEN "good"
    ELSE IF raw_level = "low" THEN "bad"
    ELSE "neutral"

\* the truth value Python gives a coordinate: None and zero are false
truthy(x) == x # None /\ x # Float(0)

\* Location objects: each coordinate is None, zero or another number of degrees
Latitudes == {None, Float(0), Float(-23)}
Longitudes == {None, Float(0), Float(-46)}
Locations == [latitude : Latitudes, longitude : Longitudes]

\* what OpenWeatherClient.get_current_weather ends with (clients.py lines 6-21): an
\* exception of requests.get or raise_for_status, or the decoded document
CurrentJson ==
    {[main |-> [temp |-> t, feels_like |-> t, humidity |-> h],
      weather |-> <<[description |-> "nublado"]>>,
      wind |-> [speed |-> 40]] : t \in {Float(v) : v \in ComfortTemps}, h \in {Float(v) : v \in Humidities}}
        \cup {[main |-> [temp |-> Float(30 * Scale), feels_like |-> Float(30 * Scale),
                         humidity |-> Float(70)],
                weather |-> <<[description |-> "nublado"]>>]}
        \cup {[main |-> [temp |-> None, feels_like |-> None, humidity |-> Float(70)],
                weather |-> <<[description |-> "nublado"]>>,
                wind |-> [speed |-> 0]]}
        \cup {[main |-> [temp |-> Float(30 * Scale)]]}
CurrentReplies ==
    {[exc |-> e, json |-> <<>>] : e \in {"ConnectionError", "HTTPError"}}
        \cup {[exc |-> "none", json |-> d] : d \in CurrentJson}

\* the outcome of a call of a weather service: the exception or the value, and whether the
\* provider was called
Outcome(r, called) == [exc |-> r.exc, ret |-> r.ret, called |-> called]

\* weather.py lines 48-74
get_current_weather_for_location(location, reply) ==
    IF ~ truthy(location.latitude) \/ ~ truthy(location.longitude)
    THEN Outcome(Return(None), FALSE)
    ELSE IF reply.exc # "none" THEN Outcome(Raise(reply.exc), TRUE)
    ELSE
        LET data == reply.json
        IN  IF \/ {"temp", "feels_like", "humidity"} \ DOMAIN data.main # {}
               \/ "weather" \notin DOMAIN data
            THEN Outcome(Raise("KeyError"), TRUE)
            ELSE Outcome(Return(Some(
                    [temperature |-> data.main.temp,
                     feels_like |-> data.main.feels_like,
                     humidity |-> data.main.humidity,
                     wind_speed |-> IF "wind" \in DOMAIN data THEN data.wind.speed ELSE Float(0),
                     description |-> data.weather[1].description])), TRUE)

\* round(num/den, 1) for den > 0, in tenths: the nearest tenth, a tie to the even one
round1(num, den) ==
    LET q == (10 * num) \div den
        r == (10 * num) % den
    IN  IF 2 * r < den THEN q
        ELSE IF 2 * r > den THEN q + 1
        ELSE IF q % 2 = 0 THEN q ELSE q + 1

\* datetime.fromtimestamp(dt).date(), as the number of the day (no offset from UTC)
DaySeconds == 24 * 60 * 60
date_of(dt) == dt \div DaySeconds

\* the items of a forecast, three hours apart, and the documents of the provider
Item(dt, t, text) == [dt |-> dt, main |-> [temp |-> t], weather |-> <<[description |-> text]>>]
ForecastJson ==
    {[list |-> <<>>],
     [list |-> <<Item(0, 20 * Scale, "nublado")>>],
     [list |-> <<Item(0, 20 * Scale, "nublado"), Item(10800, 21 * Scale, "chuva")>>],
     [list |-> <<Item(75600, 20 * Scale, "nublado"), Item(86400, 24 * Scale, "chuva"),
                 Item(97200, 25 * Scale + Scale \div 2, "sol")>>],
     [cod |-> "200"]}
ForecastReplies ==
    {[exc |-> e, json |-> <<>>] : e \in {"ConnectionError", "HTTPError"}}
        \cup {[exc |-> "none", json |-> d] : d \in ForecastJson}

\* the items of the list that fall on the date, in the order of the list
RECURSIVE ItemsOn(_, _)
ItemsOn(list, date) ==
    IF list = <<>> THEN <<>>
    ELSE (IF date_of(list[1].dt) = date THEN <<list[1]>> ELSE <<>>) \o ItemsOn(Tail(list), date)

\* the dates of the list, each once, in the order they first appear (the keys of
\* grouped_by_day)
RECURSIVE DatesOf(_, _)
DatesOf(list, seen) ==
    IF list = <<>> THEN <<>>
    ELSE IF date_of(list[1].dt) \in seen THEN DatesOf(Tail(list), seen)
    ELSE <<date_of(list[1].dt)>> \o DatesOf(Tail(list), seen \cup {date_of(list[1].dt)})

\* weather.py lines 35-43, avg_temp in tenths of a degree
ForecastOfDay(list, date) ==
    LET items == ItemsOn(list, date)
        temps == [i \in 1..Len(items) |-> items[i].main.temp]
    IN  [date |-> date,
         avg_temp |-> round1(sum(temps), Scale * Len(temps)),
         description |-> items[1].weather[1].description]

\* weather.py lines 7-45
get_forecast_for_location(location, reply) ==
    IF ~ truthy(location.latitude) \/ ~ truthy(location.longitude)
    THEN Outcome(Return(<<>>), FALSE)
    ELSE IF reply.exc # "none" THEN Outcome(Raise(reply.exc), TRUE)
    ELSE IF "list" \notin DOMAIN reply.json THEN Outcome(Raise("KeyError"), TRUE)
    ELSE
        LET list == reply.json.list
            dates == DatesOf(list, {})
        IN  Outcome(Return([i \in 1..Len(dates) |-> ForecastOfDay(list, dates[i])]), TRUE)

NoLocationError == "No location configured. Please set a default location in your profile."
NoCoordinatesError ==
    "Location is missing geographic coordinates (latitude/longitude). Please update your location settings."
WeatherError == "Unable to fetch current weather data. Please try again later."
ForecastError == "Unable to fetch forecast data. Please try again later."
UnexpectedError == "An unexpected error occurred. Please try refreshing the page."

\* what get_default_location() ends with: an exception, None or a Location
DefaultLocations ==
    {Raise("OperationalError"), Return(None)} \cup {Return(Some(l)) : l \in Locations}

\* dashboard/views.py lines 38-159: the context the template is rendered with, and the
\* calls made to the provider
index(default, reply_w, reply_f) ==
    LET Context(location, weather, forecast, insights, error, calls) ==
            [location |-> location, weather |-> weather, forecast |-> forecast,
             insights |-> insights, error |-> error, calls |-> calls]
    IN  IF default.exc # "none"
        THEN Context(None, None, <<>>, None, Some(UnexpectedError), 0)
        ELSE IF default.ret = None
        THEN Context(None, None, <<>>, None, Some(NoLocationError), 0)
        ELSE
            LET location == default.ret[1]
                w == get_current_weather_for_location(location, reply_w)
                f == get_forecast_for_location(location, reply_f)
                weather == IF w.exc = "none" THEN w.ret ELSE None
                forecast == IF f.exc = "none" THEN f.ret ELSE <<>>
                error == IF w.exc # "none" THEN Some(WeatherError)
                         ELSE IF f.exc # "none" THEN Some(ForecastError)
                         ELSE None
                raw == thermal_comfort_insight(weather[1])
                insights ==
                    IF weather # None
                    THEN Some([level |-> raw.level, summary |-> raw.summary,
                               factors |-> raw.factors,
                               ui_level |-> INSIGHT_UI_LEVEL_MAP(raw.level)])
                    ELSE None
            IN  IF ~ truthy(location.latitude) \/ ~ truthy(location.longitude)
                THEN Context(default.ret, None, <<>>, None, Some(NoCoordinatesError), 0)
                ELSE Context(default.ret, weather, forecast, insights, error,
                             (IF w.called THEN 1 ELSE 0) + (IF f.called THEN 1 ELSE 0))

InitDashboard == InitClimate

\* a call of thermal_comfort_insight(weather_data)
ThermalComfortInsight ==
    /\ dashboard = NoDashboard
    /\ \E weather_data \in ComfortDicts :
            dashboard' = [pc |-> "thermal_comfort_insight", weather_data |-> weather_data,
                          insights |-> thermal_comfort_insight(weather_data)]
    /\ UNCHANGED <<caller, temperatures, pc, analysis, interpretation, impact, impact_arg,
                   suggestions, exception, insight, earlier, db, now, response, cache,
                   provider_calls, outcome>>

\* a call of get_current_weather_for_location(location=location)
CurrentWeather ==
    /\ dashboard = NoDashboard
    /\ \E location \in Locations, reply \in CurrentReplies :
            dashboard' = [pc |-> "get_current_weather_for_location", location |-> location,
                          reply |-> reply,
                          result |-> get_current_weather_for_location(location, reply)]
    /\ UNCHANGED <<caller, temperatures, pc, analysis, interpretation, impact, impact_arg,
                   suggestions, exception, insight, earlier, db, now, response, cache,
                   provider_calls, outcome>>

\* a call of get_forecast_for_location(location=location)
Forecast ==
    /\ dashboard = NoDashboard
    /\ \E location \in Locations, reply \in ForecastReplies :
            dashboard' = [pc |-> "get_forecast_for_location", location |-> location,
                          reply |-> reply,
                          result |-> get_forecast_for_location(location, reply)]
    /\ UNCHANGED <<caller, temperatures, pc, analysis, interpretation, impact, impact_arg,
                   suggestions, exception, insight, earlier, db, now, response, cache,
                   provider_calls, outcome>>

\* a request of the dashboard page
Index ==
    /\ dashboard = NoDashboard
    /\ \E default \in DefaultLocations, reply_w \in CurrentReplies, reply_f \in ForecastReplies :
            dashboard' = [pc |-> "index", reply_w |-> reply_w, reply_f |-> reply_f,
                          context |-> index(default, reply_w, reply_f)]
    /\ UNCHANGED <<caller, temperatures, pc, analysis, interpretation, impact, impact_arg,
                   suggestions, exception, insight, earlier, db, now, response, cache,
                   provider_calls, outcome>>

\* the call has returned to its caller: its locals are gone
Returned ==
    /\ dashboard # NoDashboard
    /\ dashboard' = NoDashboard
    /\ UNCHANGED <<caller, temperatures, pc, analysis, interpretation, impact, impact_arg,
                   suggestions, exception, insight, earlier, db, now, response, cache,
                   provider_calls, outcome>>

NextDashboard == ThermalComfortInsight \/ CurrentWeather \/ Forecast \/ Index \/ Returned

DashboardSpec == InitDashboard /\ [][NextDashboard]_vars

----------------------------------------------------------------------------
(* The home page: core/views/home.py                                         *)

MaxRequests == 2

\* the city parameter of a request: absent, or one of the names the service is asked for
HomeCities == {<<>>} \cup ServiceCities

\* the subclasses of ClimateServiceError (core/exceptions/climate.py)
ClimateServiceErrors == {"CityNotFoundError", "ClimateAPIAuthError", "ClimateAPIUnavailableError"}

\* climate_service.py lines 99-117: str(error) of the exception raised for the reply
ErrorMessage(city, reply) ==
    IF reply.exc = "RequestException" THEN <<"Não foi possível conectar à API climática">>
    ELSE IF reply.status_code = 401 THEN <<"Chave de API inválida">>
    ELSE IF reply.status_code = 404 THEN <<"Cidade '", city, "' não encontrada">>
    ELSE <<"Erro inesperado ao consultar o clima">>

\* home.py lines 38-45: the row WeatherRecord.objects.create stores, created_at set to
\* the time of the call
WeatherRecord(weather_data) ==
    [city |-> weather_data.city,
     country |-> "",
     temperature |-> weather_data.temperature,
     feels_like |-> weather_data.feels_like,
     humidity |-> weather_data.humidity,
     condition |-> weather_data.condition,
     created_at |-> now]

\* home.py lines 51-53: filter(city__iexact=city).order_by('-created_at')[:10] on the
\* rows given, which are in the order of their created_at
RecentHistory(rows, city) ==
    LET found == Reverse(SelectSeq(rows, LAMBDA r : lower(r.city) = lower(city)))
    IN  SubSeq(found, 1, IF Len(found) < 10 THEN Len(found) ELSE 10)

\* created_at.strftime("%d/%m %H:%M"): the day, the hour and the minute of a time in
\* seconds; the seconds are dropped
strftime(t) == <<t \div DaySeconds, (t % DaySeconds) \div (60 * 60), (t % (60 * 60)) \div 60>>

\* json.dumps of a list: the brackets, the elements and the separators between them
RECURSIVE json_dumps_items(_)
json_dumps_items(list) ==
    IF list = <<>> THEN <<>>
    ELSE IF Len(list) = 1 THEN <<list[1]>>
    ELSE <<list[1], ", ">> \o json_dumps_items(Tail(list))
json_dumps(list) == <<"[">> \o json_dumps_items(list) \o <<"]">>

\* the context of the template
HomeContext(weather_data, error_message, history) ==
    LET chart_data == Reverse(history)
    IN  [weather |-> weather_data,
         error |-> error_message,
         history |-> history,
         labels |-> json_dumps([i \in 1..Len(chart_data) |-> strftime(chart_data[i].created_at)]),
         temperatures |-> json_dumps([i \in 1..Len(chart_data) |-> chart_data[i].temperature])]

\* no call of the service: if city is false
NoCall == [exc |-> "none", ret |-> None, fetched |-> FALSE]

\* mutant: a record is stored only for data fetched from the provider
home_stores_fetched_only(city, reply) ==
    LET r == get_weather_by_city(city, reply)
        rows == IF r.exc = "none" /\ r.fetched THEN Append(db, WeatherRecord(r.ret[1])) ELSE db
        error_message == IF r.exc = "none" THEN None ELSE Some(ErrorMessage(city, reply))
    IN  IF city = <<>>
        THEN [exc |-> "none", called |-> FALSE, service |-> NoCall, db |-> db, cache |-> cache,
              context |-> HomeContext(None, None, <<>>)]
        ELSE IF r.exc \notin ClimateServiceErrors \cup {"none"}
        THEN [exc |-> r.exc, called |-> TRUE, service |-> r, db |-> db, cache |-> r.cache,
              context |-> <<>>]
        ELSE [exc |-> "none", called |-> TRUE, service |-> r, db |-> rows, cache |-> r.cache,
              context |-> HomeContext(r.ret, error_message, RecentHistory(rows, city))]

\* home.py lines 18-77, for one reply of the provider: the exception that leaves the view
\* or the context rendered, the call of the service, and the table and the cache afterwards
home(city, reply) ==
    LET r == get_weather_by_city(city, reply)
        rows == IF r.exc = "none" THEN Append(db, WeatherRecord(r.ret[1])) ELSE db
        error_message == IF r.exc = "none" THEN None ELSE Some(ErrorMessage(city, reply))
    IN  IF city = <<>>
        THEN [exc |-> "none", called |-> FALSE, service |-> NoCall, db |-> db, cache |-> cache,
              context |-> HomeContext(None, None, <<>>)]
        ELSE IF r.exc \notin ClimateServiceErrors \cup {"none"}
        THEN [exc |-> r.exc, called |-> TRUE, service |-> r, db |-> db, cache |-> r.cache,
              context |-> <<>>]
        ELSE [exc |-> "none", called |-> TRUE, service |-> r, db |-> rows, cache |-> r.cache,
              context |-> HomeContext(r.ret, error_message, RecentHistory(rows, city))]

\* tables of n records stored by earlier requests, one a second, the last one a second ago
StoredRows == {9, 10, 11}
HomePattern(n, m) ==
    [i \in 1..n |-> [city |-> IF i % m = 0 THEN <<"P", " ", "A">> ELSE <<"L", "o">>,
                     country |-> "",
                     temperature |-> ((i * 3) % 7) * Scale,
                     feels_like |-> ((i * 3) % 7) * Scale,
                     humidity |-> 70,
                     condition |-> "nublado",
                     created_at |-> i - 1 - n]]
HomeTables == {<<>>} \cup {HomePattern(n, m) : n \in StoredRows, m \in {2, 12}}

InitHome ==
    /\ caller = "none"
    /\ temperatures = <<>>
    /\ pc = "idle"
    /\ analysis = Unset
    /\ interpretation = <<>>
    /\ impact = NoImpact
    /\ impact_arg = NoImpact
    /\ suggestions = <<>>
    /\ exception = "none"
    /\ insight = <<>>
    /\ db \in HomeTables
    /\ earlier = db
    /\ now = 0
    /\ response = NoResponse
    /\ cache = {}
    /\ provider_calls = 0
    /\ outcome = NoOutcome
    /\ dashboard = NoDashboard

\* one request GET /?city=...; the request takes a second, and earlier keeps the table as
\* it was before the request
Home ==
    /\ now < MaxRequests
    /\ \E city \in HomeCities :
         \E reply \in ProviderReplies(city) :
            LET h == home(city, reply)
                fetched == h.called /\ h.service.fetched
            IN  /\ db' = h.db
                /\ cache' = h.cache
                /\ provider_calls' = IF fetched THEN provider_calls + 1 ELSE provider_calls
                /\ outcome' = IF h.called
                              THEN [city |-> city, exc |-> h.service.exc, ret |-> h.service.ret,
                                    at |-> now, fetched |-> fetched, calls |-> provider_calls',
                                    status_code |-> IF fetched THEN reply.status_code ELSE 0]
                              ELSE NoOutcome
                /\ exception' = h.exc
                /\ response' = [request |-> city,
                                status |-> IF h.exc = "none" THEN 200 ELSE 500,
                                body |-> h.context]
    /\ earlier' = db
    /\ now' = now + 1
    /\ UNCHANGED <<caller, temperatures, pc, analysis, interpretation, impact, impact_arg,
                   suggestions, insight, dashboard>>

NextHome == Home

HomeSpec == InitHome /\ [][NextHome]_vars

----------------------------------------------------------------------------
(* Properties *)

Built == caller = "build_temperature_insight"
\* analyze_temperature has returned into the local variable analysis
Analyzed == Built /\ pc \in {"interpret", "assess", "suggest", "return", "returned"}
\* the statement of build_temperature_insight (or the direct call) has been executed
Interpreted == pc \in {"assess", "suggest", "return", "returned"}
Assessed == pc \in {"suggest", "return", "returned"}
Suggested == pc \in {"return", "returned"}

FirstReading == temperatures[1]
LastReading == temperatures[Len(temperatures)]
Readings == {temperatures[i] : i \in 1..Len(temperatures)}
Smallest == CHOOSE x \in Readings : \A y \in Readings : x <= y
Largest == CHOOSE x \in Readings : \A y \in Readings : y <= x
\* the sum of the first n readings, and of the first n absolute consecutive differences
RECURSIVE Total(_)
Total(n) == IF n = 0 THEN 0 ELSE Total(n - 1) + temperatures[n]
RECURSIVE TotalDelta(_)
TotalDelta(n) ==
    IF n = 0 THEN 0 ELSE TotalDelta(n - 1) + Abs(temperatures[n + 1] - temperatures[n])

\* h hundredths is a nearest hundredth of num/den degrees (den > 0, num in units of 1/Scale)
Nearest(h, num, den) == 2 * Abs(h * Scale * den - 100 * num) <= Scale * den

NonDegenerate ==
    /\ analysis.trend \in {"up", "down", "stable"}
    /\ analysis.variation \in {"low", "moderate", "high"}
    /\ analysis.stability \in {"stable", "unstable"}

Count(ch, str) == Cardinality({i \in 1..Len(str) : str[i] = ch})

\* C1: a reading sequence of length 0 or 1 makes analyze_temperature return, without
\* raising, trend = variation = stability = insufficient_data and min, max, average and
\* amplitude None.
C1_InsufficientData ==
    (Built /\ Len(temperatures) < 2 /\ pc # "analyze") =>
        /\ pc # "raised"
        /\ exception = "none"
        /\ analysis.trend = "insufficient_data"
        /\ analysis.variation = "insufficient_data"
        /\ analysis.stability = "insufficient_data"
        /\ analysis.min = None
        /\ analysis.max = None
        /\ analysis.average = None
        /\ analysis.amplitude = None

C1_Witness == Built /\ Len(temperatures) = 1 /\ pc = "interpret"

\* C2: for a sequence of length >= 2 the trend is up iff last > first, down iff
\* last < first and stable iff last = first, whatever the readings in between.
C2_TrendFromEnds ==
    (Analyzed /\ Len(temperatures) >= 2) =>
        /\ analysis.trend = "up" <=> LastReading > FirstReading
        /\ analysis.trend = "down" <=> LastReading < FirstReading
        /\ analysis.trend = "stable" <=> LastReading = FirstReading

\* the middle reading lies above both ends and the trend is still down
C2_Witness ==
    /\ Analyzed
    /\ Len(temperatures) = 3
    /\ temperatures[2] > temperatures[1]
    /\ temperatures[1] > temperatures[3]
    /\ analysis.trend = "down"

\* C3: for a sequence of length >= 2, with amplitude = largest - smallest reading,
\* variation is low iff amplitude < 2, moderate iff 2 <= amplitude <= 5 and high iff
\* amplitude > 5; amplitude exactly 2 and exactly 5 are moderate.
C3_VariationBands ==
    (Analyzed /\ Len(temperatures) >= 2) =>
        LET amplitude == Largest - Smallest
        IN  /\ analysis.variation = "low" <=> amplitude < 2 * Scale
            /\ analysis.variation = "moderate" <=>
                    (2 * Scale <= amplitude /\ amplitude <= 5 * Scale)
            /\ analysis.variation = "high" <=> amplitude > 5 * Scale

C3_Witness ==
    /\ Analyzed
    /\ Len(temperatures) >= 2
    /\ Largest - Smallest = 5 * Scale
    /\ analysis.variation = "moderate"

\* C4: for a sequence of length n >= 2 stability is stable iff the mean of the n-1
\* absolute consecutive differences is < 1, and unstable otherwise; a mean of exactly 1
\* is unstable.
C4_StabilityByMeanDelta ==
    (Analyzed /\ Len(temperatures) >= 2) =>
        LET n == Len(temperatures)
        IN  /\ analysis.stability = "stable" <=> TotalDelta(n - 1) < (n - 1) * Scale
            /\ analysis.stability = "unstable" <=> TotalDelta(n - 1) >= (n - 1) * Scale

\* unequal differences whose mean is exactly 1
C4_Witness ==
    /\ Analyzed
    /\ Len(temperatures) = 3
    /\ TotalDelta(2) = 2 * Scale
    /\ Abs(temperatures[2] - temperatures[1]) # Scale
    /\ analysis.stability = "unstable"

\* C5: for a sequence of length >= 2, min is the smallest reading, max the largest,
\* average the arithmetic mean and amplitude max - min, each rounded to 2 decimals
\* (a nearest hundredth of the exact value).
C5_RoundedStatistics ==
    (Analyzed /\ Len(temperatures) >= 2) =>
        LET n == Len(temperatures)
        IN  /\ Len(analysis.min) = 1 /\ Len(analysis.max) = 1
            /\ Len(analysis.average) = 1 /\ Len(analysis.amplitude) = 1
            /\ Nearest(analysis.min[1], Smallest, 1)
            /\ Nearest(analysis.max[1], Largest, 1)
            /\ Nearest(analysis.average[1], Total(n), n)
            /\ Nearest(analysis.amplitude[1], Largest - Smallest, 1)

\* [22, 23, 25, 28, 27, 26] gives min 22, max 28, average 25.17, amplitude 6
C5_Witness ==
    /\ Analyzed
    /\ temperatures = [i \in 1..6 |-> <<22, 23, 25, 28, 27, 26>>[i] * Scale]
    /\ analysis.min = Float(2200)
    /\ analysis.max = Float(2800)
    /\ analysis.average = Float(2517)
    /\ analysis.amplitude = Float(600)

\* C6: when trend = insufficient_data every downstream stage returns its fixed output,
\* whatever variation and stability hold: the not-enough-data sentence, the two
\* cannot-assess messages, and a list of exactly the one wait-for-more-data suggestion.
C6_InsufficientShortCircuit ==
    analysis.trend = "insufficient_data" =>
        /\ Interpreted => interpretation = InsufficientInterpretation
        /\ Assessed => /\ impact.health = HealthInsufficient
                       /\ impact.comfort = ComfortInsufficient
        /\ Suggested => /\ Len(suggestions) = 1
                        /\ suggestions[1] = SuggestInsufficient

\* a dict whose trend is the sentinel while variation and stability are not
C6_Witness ==
    /\ caller = "stage_call"
    /\ pc = "return"
    /\ analysis.trend = "insufficient_data"
    /\ analysis.variation = "high"
    /\ analysis.stability = "unstable"

TrendClause ==
    CASE analysis.trend = "up" -> TrendTextUp
      [] analysis.trend = "down" -> TrendTextDown
      [] analysis.trend = "stable" -> TrendTextStable
VariationClause ==
    CASE analysis.variation = "low" -> VariationTextLow
      [] analysis.variation = "moderate" -> VariationTextModerate
      [] analysis.variation = "high" -> VariationTextHigh
StabilityClause ==
    CASE analysis.stability = "stable" -> StabilityTextStable
      [] analysis.stability = "unstable" -> StabilityTextUnstable

\* str[from .. from + Len(part) - 1] is part
Occurs(part, str, from) ==
    /\ from >= 1
    /\ from + Len(part) - 1 <= Len(str)
    /\ SubSeq(str, from, from + Len(part) - 1) = part

\* C7: for trend in {up, down, stable}, variation in {low, moderate, high} and stability
\* in {stable, unstable} the interpretation is a non-empty sentence: the trend clause, a
\* comma, the variation clause, a comma, the stability clause, a period; it holds exactly
\* two commas and ends in a period.
C7_InterpretSentence ==
    (Interpreted /\ NonDegenerate) =>
        LET s == interpretation
            v == Len(TrendClause) + 3
            t == v + Len(VariationClause) + 2
        IN  /\ Len(s) > 0
            /\ Count(",", s) = 2
            /\ s[Len(s)] = "."
            /\ Occurs(TrendClause, s, 1)
            /\ Occurs(<<",", " ">>, s, v - 2)
            /\ Occurs(VariationClause, s, v)
            /\ Occurs(<<",", " ">>, s, t - 2)
            /\ Occurs(StabilityClause, s, t)
            /\ Len(s) = t + Len(StabilityClause)

C7_Witness ==
    /\ Built
    /\ Interpreted
    /\ analysis.trend = "down"
    /\ analysis.variation = "high"
    /\ analysis.stability = "unstable"

HealthVariationFragment ==
    CASE analysis.variation = "low" -> HealthLow
      [] analysis.variation = "moderate" -> HealthModerate
      [] analysis.variation = "high" -> HealthHigh
ComfortVariationFragment ==
    CASE analysis.variation = "low" -> ComfortLow
      [] analysis.variation = "moderate" -> ComfortModerate
      [] analysis.variation = "high" -> ComfortHigh
HealthStabilityFragment ==
    CASE analysis.stability = "stable" -> HealthStable
      [] analysis.stability = "unstable" -> HealthUnstable
\* the trend fragment, the empty string when the trend is stable
HealthTrendFragment ==
    CASE analysis.trend = "up" -> HealthUp
      [] analysis.trend = "down" -> HealthDown
      [] analysis.trend = "stable" -> <<>>
ComfortTrendFragment ==
    CASE analysis.trend = "up" -> ComfortUp
      [] analysis.trend = "down" -> ComfortDown
      [] analysis.trend = "stable" -> <<>>
AllFragments ==
    {HealthLow, HealthModerate, HealthHigh, ComfortLow, ComfortModerate, ComfortHigh,
     HealthStable, HealthUnstable, HealthUp, HealthDown, ComfortUp, ComfortDown}

\* part occurs somewhere in str
Within(part, str) == \E i \in 1..Len(str) : Occurs(part, str, i)
\* part occurs in str at or after position from
After(part, str, from) == \E i \in from..Len(str) : Occurs(part, str, i)

\* C8: for a non-degenerate analysis health is the variation fragment, then the stability
\* fragment, then the trend fragment (only for up or down); comfort is the variation
\* fragment, then the trend fragment (only for up or down); no stability fragment is in
\* comfort; health has 2 or 3 fragments and comfort 1 or 2 (every fragment is one
\* sentence, so the fragments of a text are counted by its periods).
C8_ImpactFragments ==
    (Assessed /\ NonDegenerate) =>
        LET h == impact.health
            c == impact.comfort
            moving == analysis.trend \in {"up", "down"}
            k == IF moving THEN 1 ELSE 0
        IN  /\ \A f \in AllFragments : Count(".", f) = 1 /\ f[Len(f)] = "."
            /\ Occurs(HealthVariationFragment, h, 1)
            /\ After(HealthStabilityFragment, h, Len(HealthVariationFragment) + 1)
            /\ moving => Occurs(HealthTrendFragment, h, Len(h) - Len(HealthTrendFragment) + 1)
            /\ moving => Len(h) > Len(HealthVariationFragment) + Len(HealthStabilityFragment)
                                    + Len(HealthTrendFragment)
            /\ Count(".", h) = 2 + k
            /\ Occurs(ComfortVariationFragment, c, 1)
            /\ moving => Occurs(ComfortTrendFragment, c, Len(c) - Len(ComfortTrendFragment) + 1)
            /\ moving => Len(c) > Len(ComfortVariationFragment) + Len(ComfortTrendFragment)
            /\ Count(".", c) = 1 + k
            /\ ~ Within(HealthStable, c)
            /\ ~ Within(HealthUnstable, c)

C8_Witness ==
    /\ Built
    /\ Assessed
    /\ analysis.trend = "up"
    /\ analysis.stability = "stable"
    /\ Count(".", impact.health) = 3
    /\ Count(".", impact.comfort) = 2

\* str has no leading, trailing or double space, and a space follows every period but the last
WellSpaced(str) ==
    /\ str # <<>>
    /\ str[1] # " "
    /\ str[Len(str)] # " "
    /\ \A i \in 1..(Len(str) - 1) : ~ (str[i] = " " /\ str[i + 1] = " ")
    /\ \A i \in 1..(Len(str) - 1) : str[i] = "." => str[i + 1] = " "

\* C9: for a non-degenerate analysis health and comfort have exactly one space between
\* consecutive fragments and no leading, trailing or double space; a stable trend
\* contributes neither text nor a separator.
C9_SingleSpaces ==
    (Assessed /\ NonDegenerate) =>
        LET k == IF analysis.trend \in {"up", "down"} THEN 1 ELSE 0
        IN  /\ WellSpaced(impact.health)
            /\ WellSpaced(impact.comfort)
            /\ Len(impact.health) = Len(HealthVariationFragment) + 1
                    + Len(HealthStabilityFragment) + k + Len(HealthTrendFragment)
            /\ Len(impact.comfort) = Len(ComfortVariationFragment) + k
                    + Len(ComfortTrendFragment)

\* the trend fragment is absent
C9_Witness ==
    /\ Built
    /\ Assessed
    /\ analysis.trend = "stable"
    /\ analysis.variation = "moderate"

VariationDriven == {SuggestHigh, SuggestModerate}
StabilityDriven == {SuggestUnstable, SuggestStable}
TrendDriven == {SuggestUp, SuggestDown}
\* how many elements of the list belong to the set
HowMany(set, list) == Cardinality({i \in 1..Len(list) : list[i] \in set})

\* C10: for a non-degenerate analysis the suggestions hold a variation-driven suggestion
\* iff variation is high or moderate, exactly one stability-driven suggestion (the variant
\* of the stability), and a trend-driven suggestion iff trend is up or down; the length is
\* 1 + [variation # low] + [trend # stable], between 1 and 3.
C10_SuggestionMembers ==
    (Suggested /\ NonDegenerate) =>
        LET byVariation == IF analysis.variation \in {"high", "moderate"} THEN 1 ELSE 0
            byTrend == IF analysis.trend \in {"up", "down"} THEN 1 ELSE 0
        IN  /\ HowMany(VariationDriven, suggestions) = byVariation
            /\ HowMany(StabilityDriven, suggestions) = 1
            /\ HowMany(TrendDriven, suggestions) = byTrend
            /\ analysis.stability = "unstable" => HowMany({SuggestUnstable}, suggestions) = 1
            /\ analysis.stability = "stable" => HowMany({SuggestStable}, suggestions) = 1
            /\ Len(suggestions) = 1 + byVariation + byTrend
            /\ Len(suggestions) \in 1..3

\* only the stability-driven suggestion is present
C10_Witness ==
    /\ Built
    /\ Suggested
    /\ analysis.variation = "low"
    /\ analysis.trend = "stable"
    /\ analysis.stability = "unstable"
    /\ Len(suggestions) = 1

\* C11: in the list returned for a non-degenerate analysis the variation-driven
\* suggestion (if present) comes before the stability-driven one, which comes before the
\* trend-driven one (if present).
C11_SuggestionOrder ==
    (Suggested /\ NonDegenerate) =>
        \A i, j \in 1..Len(suggestions) :
            /\ (suggestions[i] \in VariationDriven /\ suggestions[j] \in StabilityDriven)
                    => i < j
            /\ (suggestions[i] \in StabilityDriven /\ suggestions[j] \in TrendDriven)
                    => i < j
            /\ (suggestions[i] \in VariationDriven /\ suggestions[j] \in TrendDriven)
                    => i < j

\* all three kinds are present
C11_Witness ==
    /\ Built
    /\ Suggested
    /\ Len(suggestions) = 3
    /\ suggestions[1] = SuggestHigh
    /\ suggestions[2] = SuggestUnstable
    /\ suggestions[3] = SuggestDown

\* C12: the impact argument of suggest_actions_from_temperature never influences its
\* result: whatever impact is handed over, the list returned for an analysis is the list
\* returned for that analysis with an empty impact.
C12_ImpactUnused ==
    Suggested => suggestions = suggest_actions_from_temperature(analysis, NoImpact)

\* a non-degenerate analysis suggested for with the cannot-assess impact
C12_Witness ==
    /\ caller = "stage_call"
    /\ Suggested
    /\ NonDegenerate
    /\ impact_arg.health = HealthInsufficient
    /\ impact_arg # impact
    /\ Len(suggestions) = 3

\* one statement of build_temperature_insight: the statements follow each other in the
\* order analyze, interpret, assess_impact, suggest, return; each stage is handed the
\* analysis (stage 4 the impact of stage 3 as well) and writes its own result only
C13_Statement ==
    Built =>
        /\ <<pc, pc'>> \in {<<"analyze", "interpret">>, <<"interpret", "assess">>,
                            <<"assess", "suggest">>, <<"suggest", "return">>,
                            <<"return", "returned">>}
        /\ pc = "analyze" => analysis' = analyze_temperature(temperatures).ret
        /\ pc # "analyze" => analysis' = analysis
        /\ pc = "interpret" => interpretation' = interpret_temperature_analysis(analysis)
        /\ pc # "interpret" => interpretation' = interpretation
        /\ pc = "assess" => impact' = assess_temperature_impact(analysis)
        /\ pc # "assess" => impact' = impact
        /\ pc = "suggest" => suggestions' = suggest_actions_from_temperature(analysis, impact)
        /\ pc # "suggest" => suggestions' = suggestions
        /\ temperatures' = temperatures

\* the dict build_temperature_insight has returned
C13_Returned ==
    (Built /\ pc = "returned") =>
        LET a == analyze_temperature(temperatures).ret
            i == assess_temperature_impact(a)
        IN  /\ analysis = a
            /\ insight = << <<"analysis", a>>,
                            <<"interpretation", interpret_temperature_analysis(a)>>,
                            <<"impact", i>>,
                            <<"suggestions", suggest_actions_from_temperature(a, i)>> >>

\* C13: for every reading sequence build_temperature_insight runs the stages once each in
\* the order analyze, interpret, assess_impact, suggest, and returns exactly
\* {analysis: analyze(readings), interpretation: interpret(analysis), impact:
\* assess_impact(analysis), suggestions: suggest(analysis, impact)}; the analysis of stage 1
\* is not modified by a later stage.
C13_StagesInOrder == [][C13_Statement]_vars /\ [] C13_Returned

C13_Witness ==
    /\ Built /\ pc = "returned" /\ NonDegenerate
    /\ Len(temperatures) = 3
    /\ insight[1][2].amplitude # None
    /\ Len(insight[4][2]) = 3

Triple ==
    [InsufficientAnalysis EXCEPT !.trend = analysis.trend,
                                 !.variation = analysis.variation,
                                 !.stability = analysis.stability]

\* C15: the interpretation, impact and suggestions of an insight depend only on the
\* (trend, variation, stability) triple of the analysis: they are what the stage functions
\* return for the triple alone, whatever the min, max, average and amplitude are, so two
\* reading sequences with the same triple get the same three results.
C15_OnlyTheTriple ==
    /\ (Built /\ Interpreted) => interpretation = interpret_temperature_analysis(Triple)
    /\ (Built /\ Assessed) => impact = assess_temperature_impact(Triple)
    /\ (Built /\ Suggested) =>
            suggestions = suggest_actions_from_temperature(Triple, assess_temperature_impact(Triple))
    /\ (Built /\ pc = "returned") =>
            /\ insight[2][2] = interpret_temperature_analysis(Triple)
            /\ insight[3][2] = assess_temperature_impact(Triple)
            /\ insight[4][2] =
                    suggest_actions_from_temperature(Triple, assess_temperature_impact(Triple))

C15_Witness ==
    /\ Built /\ pc = "returned"
    /\ analysis.variation = "moderate"
    /\ analysis.amplitude = Float(500)
    /\ analysis.min = Float(0 - 100)
    /\ Triple # analysis

\* C16: build_temperature_insight is total: for every finite sequence of finite numbers
\* (empty, singleton, negative and repeated values included) no statement raises, the call
\* goes on until it has returned, the returned dict has the four keys analysis,
\* interpretation, impact and suggestions, and a sequence of fewer than 2 readings gets the
\* insufficient_data sentinel in all four.
C16_Total ==
    Built =>
        /\ pc # "raised"
        /\ exception = "none"
        /\ pc # "returned" => ENABLED Next
        /\ pc = "returned" =>
                /\ Len(insight) = 4
                /\ <<insight[1][1], insight[2][1], insight[3][1], insight[4][1]>> =
                        <<"analysis", "interpretation", "impact", "suggestions">>
                /\ Len(temperatures) < 2 =>
                        /\ insight[1][2] = InsufficientAnalysis
                        /\ insight[2][2] = InsufficientInterpretation
                        /\ insight[3][2] =
                                [health |-> HealthInsufficient, comfort |-> ComfortInsufficient]
                        /\ insight[4][2] = <<SuggestInsufficient>>

C16_Witness ==
    /\ Built /\ pc = "returned"
    /\ temperatures = <<0 - Scale>>
    /\ insight[1][2].trend = "insufficient_data"
    /\ Len(insight) = 4

\* the same for a sequence of negative and repeated values long enough to be analysed
C16_WitnessRepeated ==
    /\ Built /\ pc = "returned"
    /\ temperatures = <<0 - Scale, 0 - Scale, 0 - Scale>>
    /\ insight[1][2].trend = "stable"

Numerics == <<analysis.min, analysis.max, analysis.average, analysis.amplitude>>

\* C20: every result of analyze_temperature is well-formed: trend is one of up, down,
\* stable, insufficient_data, variation one of low, moderate, high, insufficient_data,
\* stability one of stable, unstable, insufficient_data; each numeric field is null or a
\* number; and the sentinel is all or nothing: trend is insufficient_data iff variation is
\* iff stability is iff the four numeric fields are null.
C20_WellFormed ==
    Analyzed =>
        /\ analysis.trend \in Trends
        /\ analysis.variation \in Variations
        /\ analysis.stability \in Stabilities
        /\ \A i \in 1..4 : Len(Numerics[i]) \in {0, 1}
        /\ (analysis.trend = "insufficient_data") <=> (analysis.variation = "insufficient_data")
        /\ (analysis.trend = "insufficient_data") <=> (analysis.stability = "insufficient_data")
        /\ (analysis.trend = "insufficient_data") <=> (\A i \in 1..4 : Numerics[i] = None)
        /\ (analysis.trend = "insufficient_data") <=> (\E i \in 1..4 : Numerics[i] = None)

C20_Witness ==
    /\ Analyzed
    /\ Len(temperatures) = 2
    /\ analysis.trend = "stable"
    /\ analysis.stability = "stable"
    /\ analysis.variation = "low"
    /\ \A i \in 1..4 : Numerics[i] # None

\* the sentinel as a whole
C20_WitnessSentinel ==
    /\ Analyzed
    /\ Len(temperatures) = 1
    /\ analysis = InsufficientAnalysis

HasNonFinite == \E i \in 1..Len(temperatures) : ~ IsFinite(temperatures[i])

\* C17: a reading sequence containing a non-finite value (NaN or Infinity) is rejected
\* before it reaches analyze_temperature: the call ends with the exception InvalidInput
\* and no classification is ever computed from it, so no analysis, stage result or
\* insight exists for such a sequence.
C17_NonFiniteRejected ==
    (Built /\ HasNonFinite) =>
        /\ pc \in {"analyze", "raised"}
        /\ pc = "raised" => exception = "InvalidInput"
        /\ analysis = Unset
        /\ insight = <<>>

\* a view has answered a request that named a city
Answered == response # NoResponse /\ response.request # <<>>

\* the rows the history collaborator of the answering view yielded for the request, in the
\* order in which it yielded them
History ==
    IF caller = "api.views.temperature_insight"
    THEN get_city_history(response.request, HistoryLimit)
    ELSE RecentRecords(response.request)

\* C18: every view that calls build_temperature_insight treats a history of fewer than 2
\* readings as an insufficient-data condition of its own: when the history collaborator
\* yields 0 or 1 readings the view answers with an error status and not with a 200 insight.
C18_FewReadingsAreAnError ==
    (Answered /\ Len(History) < 2) => (response.status >= 400 /\ response.status # 200)

\* the oldest and the newest row of the history
Oldest == CHOOSE r \in {History[i] : i \in 1..Len(History)} :
                \A i \in 1..Len(History) : r.created_at <= History[i].created_at
Newest == CHOOSE r \in {History[i] : i \in 1..Len(History)} :
                \A i \in 1..Len(History) : r.created_at >= History[i].created_at

\* C19: every caller of build_temperature_insight passes the readings of one city in
\* chronological order, oldest first, so the trend it reports is up exactly when the newest
\* stored reading of the window is higher than the oldest one.
C19_OldestFirst ==
    (Answered /\ response.status = 200) =>
        /\ Len(temperatures) = Len(History)
        /\ \A i \in 1..Len(History) : temperatures[i] = History[i].temperature
        /\ \A i, j \in 1..Len(History) : i < j => History[i].created_at < History[j].created_at
        /\ \A i, j \in 1..Len(History) : lower(History[i].city) = lower(History[j].city)
        /\ (insight[1][2].trend = "up") <=> (Newest.temperature > Oldest.temperature)

\* C21: analyze_temperature classifies variation and stability from the unrounded
\* amplitude and the unrounded average delta, never from the rounded values: a sequence
\* whose amplitude is below 2 but shown as 2.0 is low, one whose amplitude is above 5 but
\* shown as 5.0 is high, one whose amplitude is 2 or more but shown as 2.0 is moderate, and
\* an average delta below 1 that rounds to 1.0 still gives stable.
C21_UnroundedClassification ==
    (Analyzed /\ Len(temperatures) >= 2) =>
        LET raw == Largest - Smallest
            n == Len(temperatures) - 1
        IN  /\ (analysis.amplitude = Float(200) /\ raw < 2 * Scale) => analysis.variation = "low"
            /\ (analysis.amplitude = Float(200) /\ raw >= 2 * Scale) =>
                    analysis.variation = "moderate"
            /\ (analysis.amplitude = Float(500) /\ raw > 5 * Scale) => analysis.variation = "high"
            /\ (analysis.amplitude = Float(500) /\ raw <= 5 * Scale) =>
                    analysis.variation = "moderate"
            /\ (Nearest(100, TotalDelta(n), n) /\ TotalDelta(n) < Scale * n) =>
                    analysis.stability = "stable"
            /\ (Nearest(100, TotalDelta(n), n) /\ TotalDelta(n) >= Scale * n) =>
                    analysis.stability = "unstable"

C21_Witness ==
    /\ Analyzed
    /\ Len(temperatures) = 2
    /\ Largest - Smallest = 2 * Scale - 1
    /\ analysis.amplitude = Float(200)
    /\ analysis.variation = "low"

\* an amplitude just above 5, shown as 5.0
C21_WitnessHigh ==
    /\ Analyzed
    /\ Len(temperatures) = 2
    /\ Largest - Smallest = 5 * Scale + 1
    /\ analysis.amplitude = Float(500)
    /\ analysis.variation = "high"

\* the 18 dicts with trend up, down or stable, variation low, moderate or high and
\* stability stable or unstable
NonDegenerateArgs ==
    {a \in StageArgs : /\ a.trend \in {"up", "down", "stable"}
                       /\ a.variation \in {"low", "moderate", "high"}
                       /\ a.stability \in {"stable", "unstable"}}

\* C22: interpret_temperature_analysis is injective on non-degenerate classifications:
\* the 3 trend values, the 3 variation values and the 2 stability values have clauses of
\* their own, so the sentence of a non-degenerate triple is the sentence of no other of
\* the 18 triples, the 18 sentences are pairwise distinct, and none is the
\* insufficient-data sentence.
C22_InterpretInjective ==
    (Interpreted /\ NonDegenerate) =>
        /\ interpretation # InsufficientInterpretation
        /\ \A a \in NonDegenerateArgs :
                interpret_temperature_analysis(a) = interpretation =>
                    /\ a.trend = analysis.trend
                    /\ a.variation = analysis.variation
                    /\ a.stability = analysis.stability
        /\ Cardinality({interpret_temperature_analysis(a) : a \in NonDegenerateArgs}) = 18
        /\ Cardinality({TrendText(t) : t \in {"up", "down", "stable"}}) = 3
        /\ Cardinality({VariationText(v) : v \in {"low", "moderate", "high"}}) = 3
        /\ Cardinality({StabilityText(st) : st \in {"stable", "unstable"}}) = 2

C22_Witness ==
    /\ caller = "stage_call"
    /\ Interpreted
    /\ analysis.trend = "down"
    /\ analysis.variation = "moderate"
    /\ analysis.stability = "unstable"
    /\ interpretation = FormatSentence(TrendTextDown, VariationTextModerate, StabilityTextUnstable)

\* the unexpired cache entries under the key of the city of the call just made
Entries(c, t) == {e \in c : e.key = _get_cache_key(outcome'.city) /\ t < e.expires}

\* one call of get_weather_by_city: with an entry under the normalized key of the city the
\* entry is returned and the provider is not called; without one the provider is called
\* once and, if the call succeeds, the data returned is in the cache under that key for
\* CACHE_TIMEOUT seconds from now, every other entry being left as it was
C23_Call ==
    (now' = now) =>
        /\ Entries(cache, now) # {} =>
                /\ outcome'.exc = "none"
                /\ \E e \in Entries(cache, now) : outcome'.ret = Some(e.value)
                /\ provider_calls' = provider_calls
                /\ cache' = cache
        /\ Entries(cache, now) = {} =>
                /\ provider_calls' = provider_calls + 1
                /\ outcome'.exc = "none" =>
                        /\ \E e \in cache' :
                                /\ e.key = _get_cache_key(outcome'.city)
                                /\ e.expires = now + 600
                                /\ outcome'.ret = Some(e.value)
                                /\ cache' \ {e} = {x \in cache : x.key # e.key}

\* two city names that differ only in case or surrounding whitespace
SameName(a, b) == strip(lower(a)) = strip(lower(b))

\* two successful calls one after the other for city names that differ only in case or
\* surrounding whitespace, the first of which called the provider, the second less than
\* the timeout later
C23_Pair ==
    (/\ earlier.exc = "none" /\ outcome.exc = "none"
     /\ earlier.fetched
     /\ SameName(earlier.city, outcome.city)
     /\ outcome.at < earlier.at + 600) =>
        /\ ~ outcome.fetched
        /\ outcome.calls = earlier.calls
        /\ outcome.ret = earlier.ret

\* C23: ClimateService.get_weather_by_city consults the cache before the provider: an
\* entry under the normalized key of the city is returned without a provider call;
\* otherwise the provider is called once and the normalized data is stored under that key
\* for 10 minutes and returned; so two successive successful calls for names that differ
\* only in case or surrounding whitespace, within the timeout, make one provider call and
\* return the same data.
C23_CacheBeforeProvider == [][C23_Call]_vars /\ [] C23_Pair

C23_Witness ==
    /\ earlier.exc = "none" /\ outcome.exc = "none"
    /\ earlier.city = <<"L", "o">>
    /\ outcome.city = <<" ", "l", "o", " ">>
    /\ earlier.fetched /\ ~ outcome.fetched
    /\ outcome.at = earlier.at + HalfTimeout
    /\ provider_calls = 1
    /\ outcome.ret = earlier.ret

TypedErrors == {"ClimateAPIUnavailableError", "ClimateAPIAuthError", "CityNotFoundError"}

\* a call that ends with an exception leaves the cache as it was
C24_NotCached == (now' = now /\ outcome'.exc # "none") => cache' = cache

\* the exception of a failed provider call, and the call after a failed one
C24_Typed ==
    /\ (outcome.fetched /\ outcome.status_code = 0) => outcome.exc = "ClimateAPIUnavailableError"
    /\ (outcome.fetched /\ outcome.status_code = 401) => outcome.exc = "ClimateAPIAuthError"
    /\ (outcome.fetched /\ outcome.status_code = 404) => outcome.exc = "CityNotFoundError"
    /\ (outcome.fetched /\ outcome.status_code \notin {0, 200, 401, 404}) =>
            outcome.exc = "ClimateAPIUnavailableError"
    /\ outcome.exc \in TypedErrors => (outcome.fetched /\ outcome.ret = None)
    /\ (earlier.exc \in TypedErrors /\ outcome.city = earlier.city /\ outcome.exc # "unset") =>
            (outcome.fetched /\ outcome.calls = earlier.calls + 1)

\* C24: a failed provider call in get_weather_by_city is reported as a typed error and
\* never cached: a network exception or a status other than 200, 401, 404 raises
\* ClimateAPIUnavailableError, 401 raises ClimateAPIAuthError, 404 raises
\* CityNotFoundError; in each case the cache is left unchanged, so the next call for the
\* same city calls the provider again.
C24_FailuresTypedNotCached == [][C24_NotCached]_vars /\ [] C24_Typed

C24_Witness ==
    /\ earlier.exc = "CityNotFoundError"
    /\ earlier.status_code = 404
    /\ outcome.city = earlier.city
    /\ outcome.fetched
    /\ outcome.exc = "ClimateAPIAuthError"
    /\ provider_calls = 2
    /\ cache = {}

\* the stored rows of the requested city, whatever the case of its letters
Matching == {r \in {db[i] : i \in 1..Len(db)} : lower(r.city) = lower(strip(response.request))}
\* the number of matching rows stored after row r
NewerThan(r) == Cardinality({q \in Matching : q.created_at > r.created_at})

\* C25: the api temperature_insight_view answers every GET with exactly one of four
\* outcomes: 400 when the city parameter is missing or empty (also when the history query
\* would fail, so history is not queried); 404 when the history of the city is empty, no
\* insight being built; 500 when an exception is raised while processing; otherwise 200
\* with the city name of the most recent stored record and the insight built from the
\* readings of the most recent records, 10 at most.
C25_FourOutcomes ==
    (caller = "api.views.temperature_insight" /\ response # NoResponse) =>
        /\ response.status \in {400, 404, 500, 200}
        /\ response.status = 400 <=> response.request = <<>>
        /\ response.status = 500 <=> (response.request # <<>> /\ exception # "none")
        /\ response.status = 404 <=>
                (response.request # <<>> /\ exception = "none" /\ Matching = {})
        /\ response.status # 200 =>
                (insight = <<>> /\ temperatures = <<>> /\ response.body[1][1] = "error")
        /\ response.status = 200 =>
                /\ Len(temperatures) = (IF Cardinality(Matching) < 10 THEN Cardinality(Matching)
                                        ELSE 10)
                /\ \A i \in 1..Len(temperatures) :
                        \E r \in Matching : NewerThan(r) = i - 1 /\ temperatures[i] = r.temperature
                /\ \E r \in Matching : NewerThan(r) = 0 /\ response.body[1] = <<"city", r.city>>
                /\ response.body[2] = <<"insight", build_temperature_insight(temperatures).ret>>
                /\ Len(response.body) = 2

C25_Witness ==
    /\ caller = "api.views.temperature_insight"
    /\ response.status = 200
    /\ Len(db) = 12
    /\ Cardinality(Matching) = 12
    /\ Len(temperatures) = 10
    /\ response.body[2][2][1][2].trend = "up"

\* the trend, variation and stability analyze_temperature returns for a sequence
TripleOf(temps) ==
    LET a == analyze_temperature(temps).ret
    IN  <<a.trend, a.variation, a.stability>>

\* C26: every one of the 18 combinations of trend up, down, stable, variation low,
\* moderate, high and stability stable, unstable is what analyze_temperature returns for
\* some reading sequence of length >= 2 (here: one of the rising, falling and rising and
\* falling sequences), and build_temperature_insight called with such a sequence returns
\* the interpretation, impact and suggestions of that combination, so every branch of the
\* three later stages is reached through build_temperature_insight.
C26_AllTriplesProduced ==
    (Built /\ pc = "returned" /\ temperatures \in Ramps) =>
        /\ \A t \in {"up", "down", "stable"}, v \in {"low", "moderate", "high"},
              st \in {"stable", "unstable"} :
                \E r \in Ramps : Len(r) >= 2 /\ TripleOf(r) = <<t, v, st>>
        /\ <<analysis.trend, analysis.variation, analysis.stability>> = TripleOf(temperatures)
        /\ NonDegenerate
        /\ insight[2][2] =
                FormatSentence(TrendText(analysis.trend), VariationText(analysis.variation),
                               StabilityText(analysis.stability))
        /\ insight[3][2] = JoinMessages(ImpactMessages(analysis))
        /\ insight[4][2] =
                SuggestForTrend(analysis.trend,
                    SuggestForStability(analysis.stability,
                        SuggestForVariation(analysis.variation, <<>>)))

C26_Witness ==
    /\ Built /\ pc = "returned"
    /\ Len(temperatures) = 23
    /\ temperatures \in Ramps
    /\ analysis.trend = "stable"
    /\ analysis.variation = "high"
    /\ analysis.stability = "stable"

\* the rank of a variation label
VariationRank(v) == IF v = "low" THEN 1 ELSE IF v = "moderate" THEN 2 ELSE 3

\* C27: for a sequence of length >= 2 the amplitude max - min is at least |last - first|
\* (in the returned amplitude and in the variation label it selects). For exactly 2
\* readings the amplitude and the average delta are both |last - first|, so a stable trend
\* (equal readings) comes with variation low and stability stable, and stability stable
\* (a step below 1) comes with variation low. For any length >= 2 with all readings equal
\* the result is trend stable, variation low, stability stable, amplitude 0.
C27_TwoReadingsAndEqualReadings ==
    (Analyzed /\ Len(temperatures) >= 2) =>
        LET ends == Abs(LastReading - FirstReading)
        IN  /\ Largest - Smallest >= ends
            /\ analysis.amplitude[1] >= round2(ends, Scale)
            /\ VariationRank(analysis.variation) >=
                    VariationRank(IF ends < 2 * Scale THEN "low"
                                  ELSE IF ends <= 5 * Scale THEN "moderate" ELSE "high")
            /\ Len(temperatures) = 2 =>
                    /\ analysis.amplitude = Float(round2(ends, Scale))
                    /\ analysis.stability = "stable" <=> ends < Scale
                    /\ analysis.variation = "low" <=> ends < 2 * Scale
                    /\ analysis.trend = "stable" =>
                            analysis.variation = "low" /\ analysis.stability = "stable"
                    /\ analysis.stability = "stable" => analysis.variation = "low"
            /\ Cardinality(Readings) = 1 =>
                    /\ analysis.trend = "stable"
                    /\ analysis.variation = "low"
                    /\ analysis.stability = "stable"
                    /\ analysis.amplitude = Float(0)

\* two readings less than one degree apart: stable, hence low
C27_Witness ==
    /\ Analyzed
    /\ Len(temperatures) = 2
    /\ FirstReading > LastReading
    /\ analysis.stability = "stable"
    /\ analysis.variation = "low"
    /\ analysis.trend = "down"

\* three equal readings
C27_WitnessEqual ==
    /\ Analyzed
    /\ Len(temperatures) = 3
    /\ Cardinality(Readings) = 1
    /\ analysis.trend = "stable"
    /\ analysis.amplitude = Float(0)

\* what the claim says of one call thermal_comfort_insight(weather_data) that returned
\* insights
ComfortCase(weather_data, insights) ==
    LET t == get(weather_data, "temperature")
        h == get(weather_data, "humidity")
        missing == t = None \/ h = None
        cold == t[1] <= 10 * Scale
        hot == t[1] >= 30 * Scale
        humid == h[1] >= 70
    IN  /\ insights.level = "unknown" <=> missing
        /\ missing => insights.factors = <<>>
        /\ ~ missing =>
                /\ insights.level = "low" <=> (cold \/ (hot /\ humid))
                /\ insights.level = "moderate" <=> ~ (cold \/ (hot /\ humid))
                /\ In("low_temperature", insights.factors) <=> cold
                /\ In("high_temperature", insights.factors) <=> hot
                /\ In("high_humidity", insights.factors) <=> humid
        /\ ~ (In("low_temperature", insights.factors) /\ In("high_temperature", insights.factors))
        /\ \A d \in ComfortDicts :
                (get(d, "temperature") = t /\ get(d, "humidity") = h) =>
                    LET other == thermal_comfort_insight(d)
                    IN  /\ other.level = insights.level
                        /\ other.summary = insights.summary
                        /\ other.factors = insights.factors

\* C28: thermal_comfort_insight returns level unknown with no factors exactly when
\* temperature or humidity is missing (absent or None); otherwise level low exactly when
\* temperature <= 10 or (temperature >= 30 and humidity >= 70), and moderate in every
\* other case, temperature >= 30 with humidity < 70 included; factors never holds both
\* low_temperature and high_temperature; the result is the same whatever wind_speed is.
\* The dashboard passes it the current weather when there is one, and maps the level
\* unknown, moderate, low to the ui_level neutral, good, bad.
C28_ThermalComfortLevels ==
    /\ dashboard.pc = "thermal_comfort_insight" =>
            ComfortCase(dashboard.weather_data, dashboard.insights)
    /\ dashboard.pc = "index" =>
            /\ dashboard.context.insights = None <=> dashboard.context.weather = None
            /\ dashboard.context.insights # None =>
                    /\ ComfortCase(dashboard.context.weather[1], dashboard.context.insights[1])
                    /\ <<dashboard.context.insights[1].level,
                         dashboard.context.insights[1].ui_level>>
                            \in {<<"unknown", "neutral">>, <<"moderate", "good">>, <<"low", "bad">>}

\* 30 degrees with humidity 69 and some wind: moderate, with the factor high_temperature
C28_Witness ==
    /\ dashboard.pc = "thermal_comfort_insight"
    /\ get(dashboard.weather_data, "temperature") = Float(30 * Scale)
    /\ get(dashboard.weather_data, "humidity") = Float(69)
    /\ get(dashboard.weather_data, "wind_speed") = Float(40)
    /\ dashboard.insights.level = "moderate"
    /\ dashboard.insights.factors = <<"high_temperature">>

\* the dashboard on a hot and humid day
C28_WitnessDashboard ==
    /\ dashboard.pc = "index"
    /\ dashboard.context.insights # None
    /\ dashboard.context.insights[1].level = "low"
    /\ dashboard.context.insights[1].factors = <<"high_humidity", "high_temperature">>
    /\ dashboard.context.insights[1].ui_level = "bad"

\* C30: get_current_weather_for_location returns None, and get_forecast_for_location an
\* empty list, without calling the provider only when the location is missing a latitude
\* or a longitude; for a location that has both coordinates, a latitude or longitude equal
\* to 0 included, the provider is called and what the call ends with is what it gave.
C30_ZeroIsACoordinate ==
    dashboard.pc \in {"get_current_weather_for_location", "get_forecast_for_location"} =>
        LET missing == dashboard.location.latitude = None \/ dashboard.location.longitude = None
        IN  /\ ~ dashboard.result.called => missing
            /\ ~ missing => dashboard.result.called
            /\ (~ missing /\ dashboard.reply.exc # "none") =>
                    dashboard.result.exc = dashboard.reply.exc

\* the call the claim is wrong about: latitude 0, longitude -46, no call of the provider
C30_ZeroTakenAsMissing ==
    /\ dashboard.pc = "get_current_weather_for_location"
    /\ dashboard.location = [latitude |-> Float(0), longitude |-> Float(-46)]
    /\ ~ dashboard.result.called
    /\ dashboard.result.ret = None

\* the rows of the table stored for the city of the request (the stored name equal to the
\* parameter, letter case ignored), oldest first, and the last 10 of them
StoredFor(city) == SelectSeq(db, LAMBDA r : lower(r.city) = lower(city))
LastTen(rows) == SubSeq(rows, IF Len(rows) > 10 THEN Len(rows) - 9 ELSE 1, Len(rows))

C29_WitnessError ==
    /\ response # NoResponse
    /\ response.status = 200
    /\ outcome.exc = "CityNotFoundError"
    /\ db = earlier
    /\ Len(db) = 11
    /\ Len(response.body.history) = 10

====
